---------------------------- MODULE Spec2Model ----------------------------
(***************************************************************************)
(* A model of the DXF viewer: the tag scanner, the section walker and the  *)
(* entity extractors of parseDxf (src/src/dxf/types.ts), and the view      *)
(* transform of the renderer (src/src/dxf/renderer.ts).                    *)
(*                                                                         *)
(* Text is a sequence of characters (one-character strings; the control    *)
(* characters carry the names LF, CR, TAB and NUL).  A JavaScript number   *)
(* is an exact rational [n, d] in lowest terms with d > 0; the non-finite  *)
(* results of Number.parseFloat are the values NaN, PosInf and NegInf.     *)
(* Indices into groups are 0-based, as in the source: At(groups, i) is     *)
(* groups[i] of the source.                                                *)
(***************************************************************************)
EXTENDS Integers, Sequences, FiniteSets, TLC

VARIABLES
    phase,              \* "input" | "walk" | "done" | the transform phases
    runs,               \* number of pieces or edits the input text was built from
    raw,                \* parseDxf: its argument
    groups,             \* parseDxf: const groups = parseGroups(raw)
    i,                  \* parseDxf: the cursor of the for loop
    inEntitiesSection,  \* parseDxf: let inEntitiesSection
    entities,           \* parseDxf: const entities
    warnings,           \* parseDxf: const warnings
    steps,              \* history: one entry per iteration of the for loop
    shape,              \* the polyline whose two forms make up the input text
    xf                  \* the renderer's transform, point and results

vars == <<phase, runs, raw, groups, i, inEntitiesSection, entities,
          warnings, steps, shape, xf>>

----------------------------------------------------------------------------
(* Values                                                                  *)

Null == [null |-> TRUE]
NaN == [nan |-> TRUE]
PosInf == [inf |-> 1]
NegInf == [inf |-> -1]

LF == "\n"
CR == "\r"
TAB == "\t"
NUL == "NUL"

Abs(a) == IF a < 0 THEN -a ELSE a

RECURSIVE Gcd(_, _)
Gcd(a, b) == IF b = 0 THEN a ELSE Gcd(b, a % b)

\* n/d divided through by g, with a positive denominator.
Lowest(n, d, g) ==
    IF d < 0 THEN [n |-> (-n) \div g, d |-> (-d) \div g]
    ELSE [n |-> n \div g, d |-> d \div g]

\* The rational n/d (d # 0) in lowest terms with a positive denominator.
Rat(n, d) == Lowest(n, d, Gcd(Abs(n), Abs(d)))

Num(k) == [n |-> k, d |-> 1]

IsNumber(v) == DOMAIN v = {"n", "d"}

\* The operations divide through by common factors before they multiply, which
\* keeps the intermediate integers small; g, g1 and g2 are those factors.
SumOver(a, b, g) == Rat(a.n * (b.d \div g) + b.n * (a.d \div g), (a.d \div g) * b.d)
ProductOver(a, b, g1, g2) == Rat((a.n \div g1) * (b.n \div g2), (a.d \div g2) * (b.d \div g1))
LeOver(a, b, g) == a.n * (b.d \div g) <= b.n * (a.d \div g)

RNeg(a) == [n |-> -a.n, d |-> a.d]
RAdd(a, b) == SumOver(a, b, Gcd(a.d, b.d))
RSub(a, b) == RAdd(a, RNeg(b))
RMul(a, b) == ProductOver(a, b, Gcd(Abs(a.n), b.d), Gcd(Abs(b.n), a.d))
RDiv(a, b) == RMul(a, Rat(b.d, b.n))
\* Numbers of different whole parts are ordered by these, the others by their
\* parts below 1.
Below1(a) == [n |-> a.n % a.d, d |-> a.d]
RLe(a, b) ==
    IF a.n \div a.d # b.n \div b.d THEN a.n \div a.d < b.n \div b.d
    ELSE LeOver(Below1(a), Below1(b), Gcd(a.d, b.d))
RLt(a, b) == ~RLe(b, a)
RMax(a, b) == IF RLe(a, b) THEN b ELSE a
RMin(a, b) == IF RLe(a, b) THEN a ELSE b

\* Math.max and Math.min of two numbers either of which may be NaN or an
\* infinity: NaN if either is NaN.
MathMax(a, b) ==
    IF a = NaN \/ b = NaN THEN NaN
    ELSE IF a = PosInf \/ b = PosInf THEN PosInf
    ELSE IF a = NegInf THEN b
    ELSE IF b = NegInf THEN a
    ELSE RMax(a, b)
MathMin(a, b) ==
    IF a = NaN \/ b = NaN THEN NaN
    ELSE IF a = NegInf \/ b = NegInf THEN NegInf
    ELSE IF a = PosInf THEN b
    ELSE IF b = PosInf THEN a
    ELSE RMin(a, b)

\* Math.trunc of a finite number: the integer part, rounded toward zero.
Trunc(v) == IF v.n < 0 THEN -((-v.n) \div v.d) ELSE v.n \div v.d

\* (k & 1) === 1 for an integer k: & works on the two's complement bits, so the
\* low bit of a negative odd number is 1 as well.
LowBitSet(k) == k % 2 = 1

----------------------------------------------------------------------------
(* Text                                                                    *)

WhiteSpace == {" ", TAB, LF, CR}
Digits == {"0", "1", "2", "3", "4", "5", "6", "7", "8", "9"}

DigitValue(c) ==
    CASE c = "0" -> 0 [] c = "1" -> 1 [] c = "2" -> 2 [] c = "3" -> 3
      [] c = "4" -> 4 [] c = "5" -> 5 [] c = "6" -> 6 [] c = "7" -> 7
      [] c = "8" -> 8 [] c = "9" -> 9

Drop(s, k) == SubSeq(s, k + 1, Len(s))
Take(s, k) == SubSeq(s, 1, k)

StartsWith(s, p) == Len(s) >= Len(p) /\ Take(s, Len(p)) = p

RECURSIVE TrimStart(_)
TrimStart(s) ==
    IF s # <<>> /\ Head(s) \in WhiteSpace THEN TrimStart(Tail(s)) ELSE s

RECURSIVE TrimEnd(_)
TrimEnd(s) ==
    IF s # <<>> /\ s[Len(s)] \in WhiteSpace THEN TrimEnd(Take(s, Len(s) - 1)) ELSE s

\* String.prototype.trim
Trim(s) == TrimEnd(TrimStart(s))

\* The length of the longest prefix of s made of digits.
RECURSIVE DigitRun(_)
DigitRun(s) ==
    IF s # <<>> /\ Head(s) \in Digits THEN 1 + DigitRun(Tail(s)) ELSE 0

\* The value of a string of digits, most significant first.
RECURSIVE DigitsValue(_)
DigitsValue(s) ==
    IF s = <<>> THEN 0 ELSE 10 * DigitsValue(Take(s, Len(s) - 1)) + DigitValue(s[Len(s)])

RECURSIVE Pow10(_)
Pow10(k) == IF k = 0 THEN 1 ELSE 10 * Pow10(k - 1)

\* The sign prefix of a numeric literal: <<sign, rest>>.
SplitSign(s) ==
    IF s # <<>> /\ Head(s) = "-" THEN <<-1, Tail(s)>>
    ELSE IF s # <<>> /\ Head(s) = "+" THEN <<1, Tail(s)>>
    ELSE <<1, s>>

\* The signed integer of a sign and the digits after it; NaN without a digit.
IntegerOf(sign, digits) ==
    IF digits = <<>> THEN NaN ELSE Num(sign * DigitsValue(digits))

LeadingInteger(t) == IntegerOf(t[1], Take(t[2], DigitRun(t[2])))

\* Number.parseInt(text, 10): leading white space, a sign, then the longest run
\* of digits; NaN when there is none.  What follows the digits is ignored.
ParseInt(text) == LeadingInteger(SplitSign(TrimStart(text)))

InfinityText == <<"I", "n", "f", "i", "n", "i", "t", "y">>

\* The digits after a decimal point at the head of text; none without a point.
FractionDigits(text) ==
    IF text # <<>> /\ Head(text) = "."
    THEN Take(Tail(text), DigitRun(Tail(text)))
    ELSE <<>>

\* The number sign * intDigits.fracDigits; NaN when both are empty.
DecimalOf(sign, intDigits, fracDigits) ==
    IF intDigits = <<>> /\ fracDigits = <<>> THEN NaN
    ELSE Rat(sign * (DigitsValue(intDigits) * Pow10(Len(fracDigits))
                       + DigitsValue(fracDigits)),
             Pow10(Len(fracDigits)))

LeadingDecimal(sign, rest, k) ==
    DecimalOf(sign, Take(rest, k), FractionDigits(Drop(rest, k)))

LeadingFloat(t) ==
    IF StartsWith(t[2], InfinityText) THEN (IF t[1] = 1 THEN PosInf ELSE NegInf)
    ELSE LeadingDecimal(t[1], t[2], DigitRun(t[2]))

\* Number.parseFloat(text): leading white space, a sign, then "Infinity" or the
\* longest decimal literal (digits, then a point and digits); NaN when there is
\* none.  What follows the literal is ignored.  Exponent parts are not modelled:
\* no text of the model has an "e" or "E" after a digit.
ParseFloat(text) == LeadingFloat(SplitSign(TrimStart(text)))

\* Number.isFinite
IsFinite(v) == IsNumber(v)

----------------------------------------------------------------------------
(* TagScanner: parseGroups                                                 *)

\* What the character at index k of text becomes under
\* raw.replace(/\r\n/g, "\n").replace(/\r/g, "\n"): a CR becomes an LF, and the
\* LF of a CR LF pair goes.
BreakAt(text, k) ==
    IF text[k] = CR THEN <<LF>>
    ELSE IF text[k] = LF /\ k > 1 /\ text[k - 1] = CR THEN <<>>
    ELSE <<text[k]>>

\* The replaced characters of text[lo..hi], in order (halving keeps the
\* evaluation shallow).
RECURSIVE NormalizeRange(_, _, _)
NormalizeRange(text, lo, hi) ==
    IF lo > hi THEN <<>>
    ELSE IF lo = hi THEN BreakAt(text, lo)
    ELSE LET mid == (lo + hi) \div 2
         IN  NormalizeRange(text, lo, mid) \o NormalizeRange(text, mid + 1, hi)

NormalizeBreaks(text) == NormalizeRange(text, 1, Len(text))

\* String.prototype.split("\n") of text[lo..hi]: the pieces between the LFs; a
\* text with k LFs has k + 1 pieces, the empty text has the single piece "".
RECURSIVE SplitRange(_, _, _)
SplitRange(text, lo, hi) ==
    IF lo > hi THEN << <<>> >>
    ELSE IF lo = hi THEN (IF text[lo] = LF THEN << <<>>, <<>> >> ELSE << <<text[lo]>> >>)
    ELSE LET mid == (lo + hi) \div 2
             left == SplitRange(text, lo, mid)
             right == SplitRange(text, mid + 1, hi)
         IN  Take(left, Len(left) - 1) \o << left[Len(left)] \o right[1] >> \o Tail(right)

SplitLines(text) == SplitRange(text, 1, Len(text))

\* The record of a pair with trimmed code line codeText: none when codeText is
\* empty or parses to NaN.
GroupOf(codeText, code, valueText) ==
    IF codeText = <<>> THEN <<>>
    ELSE IF code = NaN THEN <<>>
    ELSE <<[code |-> code.n, value |-> Trim(valueText)]>>

PairGroup(codeText, valueText) == GroupOf(codeText, ParseInt(codeText), valueText)

\* The loop of parseGroups if a pair without a record moved it on by one
\* line only.
RECURSIVE GroupsFromByLine(_, _)
GroupsFromByLine(ls, k) ==
    IF ~(k + 1 < Len(ls)) THEN <<>>
    ELSE IF PairGroup(Trim(ls[k + 1]), ls[k + 2]) = <<>> THEN GroupsFromByLine(ls, k + 1)
    ELSE PairGroup(Trim(ls[k + 1]), ls[k + 2]) \o GroupsFromByLine(ls, k + 2)

\* The body of parseGroups' loop from line index k (0-based) on: the pair
\* (ls[k], ls[k + 1]) gives a record unless its code line is empty after
\* trimming or is no integer; the loop runs while k + 1 < ls.length.
RECURSIVE GroupsFrom(_, _)
GroupsFrom(ls, k) ==
    IF ~(k + 1 < Len(ls)) THEN <<>>
    ELSE PairGroup(Trim(ls[k + 1]), ls[k + 2]) \o GroupsFrom(ls, k + 2)

parseGroups(text) == GroupsFrom(SplitLines(NormalizeBreaks(text)), 0)

----------------------------------------------------------------------------
(* EntityExtractor: the readers and the four simple entities               *)

SECTION == <<"S", "E", "C", "T", "I", "O", "N">>
ENDSEC == <<"E", "N", "D", "S", "E", "C">>
ENTITIES == <<"E", "N", "T", "I", "T", "I", "E", "S">>
LINE == <<"L", "I", "N", "E">>
CIRCLE == <<"C", "I", "R", "C", "L", "E">>
ARC == <<"A", "R", "C">>
LWPOLYLINE == <<"L", "W", "P", "O", "L", "Y", "L", "I", "N", "E">>
POLYLINE == <<"P", "O", "L", "Y", "L", "I", "N", "E">>
VERTEX == <<"V", "E", "R", "T", "E", "X">>
SEQEND == <<"S", "E", "Q", "E", "N", "D">>

BinaryWarning == "This file appears to be binary DXF. Rendering may be incomplete."

\* groups[k] of the source, k 0-based; Null stands for undefined.
At(gs, k) == IF k >= 0 /\ k < Len(gs) THEN gs[k + 1] ELSE Null

\* groups.slice(from, to), 0-based, to exclusive.
Slice(gs, from, to) == SubSeq(gs, from + 1, to)

parseNumberNoCheck(value) == ParseFloat(value)

FiniteOrNull(parsed) == IF IsFinite(parsed) THEN parsed ELSE Null

parseNumber(value) == FiniteOrNull(ParseFloat(value))

\* The first k with body[k].code = code, 0 when there is none.
RECURSIVE FirstWithCode(_, _, _)
FirstWithCode(body, code, k) ==
    IF k > Len(body) THEN 0
    ELSE IF body[k].code = code THEN k
    ELSE FirstWithCode(body, code, k + 1)

\* The last k with body[k].code = code, 0 when there is none.
RECURSIVE LastWithCode(_, _, _)
LastWithCode(body, code, k) ==
    IF k < 1 THEN 0
    ELSE IF body[k].code = code THEN k
    ELSE LastWithCode(body, code, k - 1)

\* The number of body[k]; null for k = 0 (no record found).
NumberAt(body, k) == IF k = 0 THEN Null ELSE parseNumber(body[k].value)

readNumberLast(body, code) == NumberAt(body, LastWithCode(body, code, Len(body)))

readNumber(body, code) == NumberAt(body, FirstWithCode(body, code, 1))

PointOf(x, y) == IF x = Null \/ y = Null THEN Null ELSE [x |-> x, y |-> y]

readPoint(body, xCode, yCode) == PointOf(readNumber(body, xCode), readNumber(body, yCode))

LineOf(start, end) ==
    IF start = Null \/ end = Null THEN Null
    ELSE [type |-> "LINE", start |-> start, end |-> end]

parseLine(body) == LineOf(readPoint(body, 10, 20), readPoint(body, 11, 21))

CircleOfAnyRadius(center, radius) ==
    IF center = Null \/ radius = Null THEN Null
    ELSE [type |-> "CIRCLE", center |-> center, radius |-> radius]

CircleOf(center, radius) ==
    IF center = Null \/ radius = Null \/ RLe(radius, Num(0)) THEN Null
    ELSE [type |-> "CIRCLE", center |-> center, radius |-> radius]

parseCircleAnyRadius(body) == CircleOfAnyRadius(readPoint(body, 10, 20), readNumber(body, 40))

parseCircle(body) == CircleOf(readPoint(body, 10, 20), readNumber(body, 40))

ArcOf(center, radius, startAngle, endAngle) ==
    IF center = Null \/ radius = Null \/ RLe(radius, Num(0))
       \/ startAngle = Null \/ endAngle = Null
    THEN Null
    ELSE [type |-> "ARC", center |-> center, radius |-> radius,
          startAngleDeg |-> startAngle, endAngleDeg |-> endAngle]

parseArc(body) ==
    ArcOf(readPoint(body, 10, 20), readNumber(body, 40),
          readNumber(body, 50), readNumber(body, 51))

\* if (y !== null) vertices.push({x: pendingX, y})
WithVertex(vertices, pendingX, y) ==
    IF y # Null THEN Append(vertices, [x |-> pendingX, y |-> y]) ELSE vertices

\* The for loop of parseLwPolyline if a code-20 record left the X pending.
RECURSIVE LwVerticesKeepPending(_, _, _, _)
LwVerticesKeepPending(body, k, pendingX, vertices) ==
    IF k > Len(body) THEN vertices
    ELSE IF body[k].code = 10
         THEN LwVerticesKeepPending(body, k + 1, parseNumber(body[k].value), vertices)
    ELSE IF body[k].code = 20 /\ pendingX # Null
         THEN LwVerticesKeepPending(body, k + 1, pendingX,
                                    WithVertex(vertices, pendingX, parseNumber(body[k].value)))
    ELSE LwVerticesKeepPending(body, k + 1, pendingX, vertices)

\* The for loop of parseLwPolyline from body[k] on, with the vertices
\* gathered so far and the pending X (Null when none is pending).
RECURSIVE LwVertices(_, _, _, _)
LwVertices(body, k, pendingX, vertices) ==
    IF k > Len(body) THEN vertices
    ELSE IF body[k].code = 10
         THEN LwVertices(body, k + 1, parseNumber(body[k].value), vertices)
    ELSE IF body[k].code = 20 /\ pendingX # Null
         THEN LwVertices(body, k + 1, Null,
                         WithVertex(vertices, pendingX, parseNumber(body[k].value)))
    ELSE LwVertices(body, k + 1, pendingX, vertices)

OrOne(v) == IF v = Null THEN Num(1) ELSE v

\* readNumber(body, 70) ?? 0
OrZero(v) == IF v = Null THEN Num(0) ELSE v

PolylineOf(vertices, closed) ==
    IF Len(vertices) < 2 THEN Null
    ELSE [type |-> "POLYLINE", points |-> vertices, closed |-> closed]

parseLwPolyline(body) ==
    PolylineOf(LwVertices(body, 1, Null, <<>>),
               LowBitSet(Trunc(OrZero(readNumber(body, 70)))))

\* The index of the first record at or after k whose code is 0, Len(gs) when
\* there is none: where the body scans of the extractors stop.
RECURSIVE NextZero(_, _)
NextZero(gs, k) ==
    IF k >= Len(gs) THEN Len(gs)
    ELSE IF At(gs, k).code = 0 THEN k
    ELSE NextZero(gs, k + 1)

VertexUpTo(gs, startIndex, end) ==
    [point |-> readPoint(Slice(gs, startIndex + 1, end), 10, 20), nextIndex |-> end]

parseVertex(gs, startIndex) == VertexUpTo(gs, startIndex, NextZero(gs, startIndex + 1))

\* The first loop of parsePolylineEntity from index k on: the flags of the
\* header, each code-70 record overwriting the value before it.
RECURSIVE HeaderFlags(_, _, _)
HeaderFlags(gs, k, flags) ==
    IF k >= Len(gs) \/ At(gs, k).code = 0 THEN flags
    ELSE IF At(gs, k).code = 70
         THEN HeaderFlags(gs, k + 1, Trunc(OrZero(parseNumber(At(gs, k).value))))
    ELSE HeaderFlags(gs, k + 1, flags)

\* if (parsedVertex.point) points.push(parsedVertex.point)
WithPoint(points, point) == IF point # Null THEN Append(points, point) ELSE points

\* The second loop of parsePolylineEntity if it went past the code-0 record
\* that is neither VERTEX nor SEQEND.
RECURSIVE VertexLoopPastOther(_, _, _)
VertexLoopPastOther(gs, k, points) ==
    IF k >= Len(gs) THEN [points |-> points, nextIndex |-> k]
    ELSE IF At(gs, k).code # 0 THEN VertexLoopPastOther(gs, k + 1, points)
    ELSE IF At(gs, k).value = VERTEX
         THEN VertexLoopPastOther(gs, parseVertex(gs, k).nextIndex,
                                  WithPoint(points, parseVertex(gs, k).point))
    ELSE [points |-> points, nextIndex |-> k + 1]

\* The second loop of parsePolylineEntity from index k on: the points of the
\* VERTEX records and the index the loop ends at.
RECURSIVE VertexLoop(_, _, _)
RECURSIVE AfterVertex(_, _, _)
VertexLoop(gs, k, points) ==
    IF k >= Len(gs) THEN [points |-> points, nextIndex |-> k]
    ELSE IF At(gs, k).code # 0 THEN VertexLoop(gs, k + 1, points)
    ELSE IF At(gs, k).value = VERTEX THEN AfterVertex(gs, points, parseVertex(gs, k))
    ELSE IF At(gs, k).value = SEQEND THEN [points |-> points, nextIndex |-> k + 1]
    ELSE [points |-> points, nextIndex |-> k]

AfterVertex(gs, points, parsedVertex) ==
    VertexLoop(gs, parsedVertex.nextIndex, WithPoint(points, parsedVertex.point))

PolylineResult(flags, loop) ==
    [entity |-> PolylineOf(loop.points, LowBitSet(flags)), nextIndex |-> loop.nextIndex]

\* parsePolylineEntity with its index i starting at first.
PolylineFrom(gs, first) ==
    PolylineResult(HeaderFlags(gs, first, 0), VertexLoop(gs, NextZero(gs, first), <<>>))

parsePolylineEntityFromStart(gs, startIndex) == PolylineFrom(gs, startIndex)

parsePolylineEntity(gs, startIndex) == PolylineFrom(gs, startIndex + 1)

SimplePastNext(entityType, body, end) ==
    IF entityType = LINE THEN [entity |-> parseLine(body), nextIndex |-> end]
    ELSE IF entityType = LWPOLYLINE THEN [entity |-> parseLwPolyline(body), nextIndex |-> end]
    ELSE IF entityType = CIRCLE THEN [entity |-> parseCircle(body), nextIndex |-> end]
    ELSE IF entityType = ARC THEN [entity |-> parseArc(body), nextIndex |-> end]
    ELSE [entity |-> Null, nextIndex |-> end + 1]

\* The switch of parseSimpleEntity on the start marker's value.
SimpleOf(entityType, body, end) ==
    IF entityType = LINE THEN [entity |-> parseLine(body), nextIndex |-> end]
    ELSE IF entityType = LWPOLYLINE THEN [entity |-> parseLwPolyline(body), nextIndex |-> end]
    ELSE IF entityType = CIRCLE THEN [entity |-> parseCircle(body), nextIndex |-> end]
    ELSE IF entityType = ARC THEN [entity |-> parseArc(body), nextIndex |-> end]
    ELSE [entity |-> Null, nextIndex |-> end]

SimpleUpTo(gs, startIndex, end) ==
    SimpleOf(At(gs, startIndex).value, Slice(gs, startIndex + 1, end), end)

parseSimpleEntityPastNext(gs, startIndex) ==
    LET end == NextZero(gs, startIndex + 1)
    IN  SimplePastNext(At(gs, startIndex).value, Slice(gs, startIndex + 1, end), end)

parseSimpleEntity(gs, startIndex) ==
    IF At(gs, startIndex) = Null THEN [entity |-> Null, nextIndex |-> startIndex + 1]
    ELSE SimpleUpTo(gs, startIndex, NextZero(gs, startIndex + 1))

----------------------------------------------------------------------------
(* SectionWalker: the for loop of parseDxf                                 *)

\* The loop's variables as one value.
Walker(cursor, flag, ents) ==
    [i |-> cursor, inEntitiesSection |-> flag, entities |-> ents]

AtSection(gs, w) == At(gs, w.i).code = 0 /\ At(gs, w.i).value = SECTION
AtEndsec(gs, w) == At(gs, w.i).code = 0 /\ At(gs, w.i).value = ENDSEC
AtIgnored(gs, w) == ~w.inEntitiesSection \/ At(gs, w.i).code # 0
AtPolyline(gs, w) == At(gs, w.i).value = POLYLINE

\* sectionMarker?.code === 2 && sectionMarker.value === "ENTITIES"
IsEntitiesMarker(sectionMarker) ==
    sectionMarker # Null /\ sectionMarker.code = 2 /\ sectionMarker.value = ENTITIES

sectionStepKeepFlag(gs, w) ==
    Walker(w.i + 2, w.inEntitiesSection \/ IsEntitiesMarker(At(gs, w.i + 1)), w.entities)

sectionStep(gs, w) ==
    Walker(w.i + 2, IsEntitiesMarker(At(gs, w.i + 1)), w.entities)

endsecStepKeepFlag(gs, w) == Walker(w.i + 1, w.inEntitiesSection, w.entities)

endsecStep(gs, w) == Walker(w.i + 1, FALSE, w.entities)

ignoredStep(gs, w) == Walker(w.i + 1, w.inEntitiesSection, w.entities)

pushEntityFront(ents, entity) == IF entity # Null THEN <<entity>> \o ents ELSE ents

\* if (parsed.entity) { entities.push(parsed.entity); }
pushEntity(ents, entity) == IF entity # Null THEN Append(ents, entity) ELSE ents

\* if (parsed.entity) entities.push(parsed.entity); i = parsed.nextIndex
Advance(w, parsed) ==
    Walker(parsed.nextIndex, w.inEntitiesSection, pushEntity(w.entities, parsed.entity))

polylineStep(gs, w) == Advance(w, parsePolylineEntity(gs, w.i))

simpleStep(gs, w) == Advance(w, parseSimpleEntity(gs, w.i))

\* Which branch of the loop body an iteration at w takes, in the order of the
\* source's tests.
BranchAt(gs, w) ==
    IF AtSection(gs, w) THEN "SECTION"
    ELSE IF AtEndsec(gs, w) THEN "ENDSEC"
    ELSE IF AtIgnored(gs, w) THEN "IGNORED"
    ELSE IF AtPolyline(gs, w) THEN "POLYLINE"
    ELSE "SIMPLE"

\* One iteration of the loop.
WalkStep(gs, w) ==
    IF AtSection(gs, w) THEN sectionStep(gs, w)
    ELSE IF AtEndsec(gs, w) THEN endsecStep(gs, w)
    ELSE IF AtIgnored(gs, w) THEN ignoredStep(gs, w)
    ELSE IF AtPolyline(gs, w) THEN polylineStep(gs, w)
    ELSE simpleStep(gs, w)

\* The loop run to its end from w.
RECURSIVE WalkFrom(_, _)
WalkFrom(gs, w) == IF w.i < Len(gs) THEN WalkFrom(gs, WalkStep(gs, w)) ELSE w

\* The text parseDxf hands to parseGroups: raw itself.
scanInputUntilNul(text) ==
    IF \E k \in 1..Len(text) : text[k] = NUL
    THEN Take(text, (CHOOSE k \in 1..Len(text) :
                        text[k] = NUL /\ \A j \in 1..(k - 1) : text[j] # NUL) - 1)
    ELSE text

scanInput(text) == text

\* const warnings = []; if (raw.includes("\u0000")) warnings.push(...)
binaryWarnings(text) ==
    IF \E k \in 1..Len(text) : text[k] = NUL THEN <<BinaryWarning>> ELSE <<>>

\* parseDxf as a function: the Document it returns for a text.
parseDxf(text) ==
    [entities |-> WalkFrom(parseGroups(scanInput(text)), Walker(0, FALSE, <<>>)).entities,
     warnings |-> binaryWarnings(text)]

----------------------------------------------------------------------------
(* The input texts of the walker's specification, built from pieces        *)

MaxRuns == 3

RECURSIVE JoinLines(_)
JoinLines(ls) ==
    IF ls = <<>> THEN <<>>
    ELSE IF Len(ls) = 1 THEN ls[1]
    ELSE ls[1] \o <<LF>> \o JoinLines(Tail(ls))

\* Pieces of a drawing file, each a sequence of lines (code line, value line).
PieceSecEntities == << <<" ", " ", "0">>, SECTION, <<" ", " ", "2">>, ENTITIES >>
PieceSecHeader == << <<"0">>, SECTION, <<"2">>, <<"H", "E", "A", "D", "E", "R">> >>
PieceSecBare == << <<"0">>, SECTION >>
PieceEndsec == << <<"0">>, ENDSEC >>
PieceLine ==
    << <<"0">>, LINE, <<" ", "1", "0">>, <<"0", ".", "0">>, <<" ", "2", "0">>, <<"0">>,
       <<" ", "1", "1">>, <<"1", "0">>, <<" ", "2", "1">>, <<"5">> >>
PieceLineNoEnd ==
    << <<"0">>, LINE, <<"1", "0">>, <<"1">>, <<"2", "0">>, <<"2">>, <<"1", "1">>, <<"3">> >>
PieceCircle ==
    << <<"0">>, CIRCLE, <<"1", "0">>, <<"4">>, <<"2", "0">>, <<"-", "4">>,
       <<"4", "0">>, <<"2", ".", "5">> >>
PieceCircleNoRadius ==
    << <<"0">>, CIRCLE, <<"1", "0">>, <<"4">>, <<"2", "0">>, <<"4">>, <<"4", "0">>, <<"0">> >>
PieceText == << <<"0">>, <<"T", "E", "X", "T">>, <<"1", "0">>, <<"7">>, <<"2", "0">>, <<"7">> >>
PieceLwPolyline ==
    << <<"0">>, LWPOLYLINE, <<"7", "0">>, <<"1">>, <<"1", "0">>, <<"0">>, <<"2", "0">>, <<"0">>,
       <<"1", "0">>, <<"6">>, <<"2", "0">>, <<"0">> >>
PiecePolyline == << <<"0">>, POLYLINE, <<"7", "0">>, <<"1">> >>
PieceVertices ==
    << <<"0">>, VERTEX, <<"1", "0">>, <<"1">>, <<"2", "0">>, <<"1">>,
       <<"0">>, VERTEX, <<"1", "0">>, <<"2">>, <<"2", "0">>, <<"3">> >>
PieceSeqend == << <<"0">>, SEQEND, <<"8">>, <<"0">> >>
PieceEndPoint == << <<"2", "1">>, <<"9">> >>
\* A pair the scanner skips: its code line starts with a NUL.
PieceNulCode == << <<NUL, "0">>, LINE >>
\* A comment record whose value holds a NUL.
PieceNulValue == << <<"9", "9", "9">>, <<"a", NUL>> >>

WalkPieces ==
    { PieceSecEntities, PieceSecHeader, PieceSecBare, PieceEndsec, PieceLine,
      PieceLineNoEnd, PieceCircle, PieceCircleNoRadius, PieceText, PieceLwPolyline,
      PiecePolyline, PieceVertices, PieceSeqend, PieceEndPoint, PieceNulCode,
      PieceNulValue }

\* The text with the lines of a piece added at its end.
WithPiece(text, count, piece) ==
    IF count = 0 THEN JoinLines(piece) ELSE text \o <<LF>> \o JoinLines(piece)

----------------------------------------------------------------------------
(* The state machine: input, then parseDxf step by step                    *)

NoTransform == [stage |-> "none"]
NoShape == [header |-> <<>>, vertices |-> <<>>]

InitParser ==
    /\ phase = "input"
    /\ runs = 0
    /\ groups = <<>>
    /\ i = 0
    /\ inEntitiesSection = FALSE
    /\ entities = <<>>
    /\ warnings = <<>>
    /\ steps = <<>>
    /\ xf = NoTransform

Init ==
    /\ InitParser
    /\ shape = NoShape
    /\ raw = <<>>

\* The caller adds a piece to the text it will hand to parseDxf.
AppendPiece ==
    /\ phase = "input"
    /\ runs < MaxRuns
    /\ \E piece \in WalkPieces : raw' = WithPiece(raw, runs, piece)
    /\ runs' = runs + 1
    /\ UNCHANGED <<phase, groups, i, inEntitiesSection, entities, warnings, steps, shape, xf>>

\* parseDxf up to its loop: the binary warning, the tag records, the loop's
\* variables.
StartParse ==
    /\ phase = "input"
    /\ phase' = "walk"
    /\ warnings' = binaryWarnings(raw)
    /\ groups' = parseGroups(scanInput(raw))
    /\ entities' = <<>>
    /\ inEntitiesSection' = FALSE
    /\ i' = 0
    /\ UNCHANGED <<runs, raw, steps, shape, xf>>

Current == Walker(i, inEntitiesSection, entities)

\* One iteration of the loop taking branch b to the walker state w.
Iterate(b, w) ==
    /\ phase = "walk"
    /\ i < Len(groups)
    /\ BranchAt(groups, Current) = b
    /\ i' = w.i
    /\ inEntitiesSection' = w.inEntitiesSection
    /\ entities' = w.entities
    /\ steps' = Append(steps, [at |-> i, branch |-> b, next |-> w.i,
                               before |-> Len(entities), after |-> Len(w.entities)])
    /\ UNCHANGED <<phase, runs, raw, groups, warnings, shape, xf>>

StepSection == Iterate("SECTION", sectionStep(groups, Current))
StepEndsec == Iterate("ENDSEC", endsecStep(groups, Current))
StepIgnored == Iterate("IGNORED", ignoredStep(groups, Current))
StepPolyline == Iterate("POLYLINE", polylineStep(groups, Current))
StepSimple == Iterate("SIMPLE", simpleStep(groups, Current))

\* The loop's condition fails: return {entities, warnings}.
Finish ==
    /\ phase = "walk"
    /\ ~(i < Len(groups))
    /\ phase' = "done"
    /\ UNCHANGED <<runs, raw, groups, i, inEntitiesSection, entities, warnings, steps, shape, xf>>

Walk == StepSection \/ StepEndsec \/ StepIgnored \/ StepPolyline \/ StepSimple \/ Finish

Next == AppendPiece \/ StartParse \/ Walk

Spec == Init /\ [][Next]_vars

----------------------------------------------------------------------------
(* Properties of the walker                                                *)

Parsing == phase \in {"walk", "done"}

HasNul(text) == \E k \in 1..Len(text) : text[k] = NUL

StepsOf(branches) == {k \in 1..Len(steps) : steps[k].branch \in branches}

\* What the extractors give for the start marker at index k.
ExtractedAt(gs, k) ==
    IF At(gs, k).value = POLYLINE THEN parsePolylineEntity(gs, k).entity
    ELSE parseSimpleEntity(gs, k).entity

\* The iterations that met an entity start marker, those that changed the
\* entity list, and those whose run fails validation (the extractor gives null).
ExtractionSteps == StepsOf({"SIMPLE", "POLYLINE"})
PushingSteps == {k \in 1..Len(steps) : steps[k].after # steps[k].before}
FailedSteps == {k \in ExtractionSteps : ExtractedAt(groups, steps[k].at) = Null}

\* C1: parseDxf returns a Document for every text and never raises: each
\* iteration of the walker, whatever its branch, leaves the cursor at a strictly
\* larger index that is at most one past the end of the tag records, so there
\* are at most as many iterations as tag records before it returns; the empty
\* text, and any text with no tag record, gives a Document with no entities,
\* and the empty text gives no warnings either.
C1_TerminatesWithDocument ==
    /\ \A k \in 1..Len(steps) : steps[k].next > steps[k].at
    /\ \A k \in 1..Len(steps) : k > 1 => steps[k].at = steps[k - 1].next
    /\ Len(steps) <= Len(groups)
    /\ i <= Len(groups) + 1
    /\ phase = "done" => i >= Len(groups)
    /\ (phase = "done" /\ groups = <<>>) => entities = <<>>
    /\ (phase = "done" /\ raw = <<>>) => (entities = <<>> /\ warnings = <<>>)

\* A finished run that went through a section record, a nested polyline and a
\* simple entity.
C1_Witness ==
    /\ phase = "done"
    /\ StepsOf({"SECTION"}) # {}
    /\ StepsOf({"POLYLINE"}) # {}
    /\ StepsOf({"SIMPLE"}) # {}
    /\ entities # <<>>

\* The tag records without those at the 0-based indices from .. to - 1.
RemoveRun(gs, from, to) == Take(gs, from) \o Drop(gs, to)

\* C3: an entity run that fails validation adds no entity and no warning; a
\* failed simple run ends exactly at the next code-0 record, a failed nested
\* polyline passes over VERTEX and SEQEND records only; and what the walker
\* extracts from the records after the failed run is what it extracts from
\* them when the failed run (up to the next code-0 record) is taken out of the
\* tag sequence and the walker stands, unchanged, where the run began.
C3_FailedRunIsSkipped ==
    \A k \in FailedSteps :
        /\ steps[k].after = steps[k].before
        /\ ~HasNul(raw) => warnings = <<>>
        /\ steps[k].branch = "SIMPLE" =>
               steps[k].next = NextZero(groups, steps[k].at + 1)
        /\ \A j \in (steps[k].at + 1)..(steps[k].next - 1) :
               At(groups, j).code = 0 =>
                   /\ steps[k].branch = "POLYLINE"
                   /\ At(groups, j).value \in {VERTEX, SEQEND}
        /\ phase = "done" =>
               WalkFrom(RemoveRun(groups, steps[k].at,
                                  NextZero(groups, steps[k].next)),
                        Walker(steps[k].at, TRUE,
                               Take(entities, steps[k].before))).entities
                   = entities

\* A finished run with a failed entity run followed by an extracted entity.
C3_Witness ==
    /\ phase = "done"
    /\ \E k \in FailedSteps : \E l \in PushingSteps : l > k

\* The section flag after the first k iterations, told from the records the
\* walker processed: set iff the last SECTION or ENDSEC record processed is a
\* SECTION directly followed by the record (2, ENTITIES).
FlagAfter(k) ==
    LET marks == {j \in 1..k : steps[j].branch \in {"SECTION", "ENDSEC"}}
        last == CHOOSE j \in marks : \A m \in marks : m <= j
    IN  /\ marks # {}
        /\ steps[last].branch = "SECTION"
        /\ At(groups, steps[last].at + 1) = [code |-> 2, value |-> ENTITIES]

\* C4: the inside-entities flag is false at the start and always equals what
\* the last processed SECTION or ENDSEC record made it; an entity is extracted
\* only by an iteration that stands on a code-0 record while the flag is set.
C4_ExtractionOnlyInsideEntities ==
    /\ phase = "input" => ~inEntitiesSection
    /\ Parsing => (inEntitiesSection <=> FlagAfter(Len(steps)))
    /\ \A k \in 1..Len(steps) :
           steps[k].branch \in {"SECTION", "ENDSEC"} => At(groups, steps[k].at).code = 0
    /\ \A k \in ExtractionSteps :
           FlagAfter(k - 1) /\ At(groups, steps[k].at).code = 0
    /\ PushingSteps \subseteq ExtractionSteps

\* A finished run in which a LINE start marker after a processed ENDSEC was
\* passed over.
C4_Witness ==
    /\ phase = "done"
    /\ \E k \in StepsOf({"ENDSEC"}) : \E l \in StepsOf({"IGNORED"}) :
           /\ l > k
           /\ At(groups, steps[l].at) = [code |-> 0, value |-> LINE]
           /\ FlagAfter(k - 1)

\* C5: the entities stand in the order of their start markers: each one was
\* added by one iteration, at the end of the list, it is the entity of that
\* iteration's start marker, and an iteration adds at most one.
C5_EntitiesInSourceOrder ==
    /\ Len(entities) = Cardinality(PushingSteps)
    /\ \A k \in PushingSteps :
           /\ steps[k].after = steps[k].before + 1
           /\ entities[steps[k].after] = ExtractedAt(groups, steps[k].at)
    /\ \A k, l \in PushingSteps :
           k < l => (steps[k].at < steps[l].at /\ steps[k].after < steps[l].after)

\* A finished run with two entities of different types.
C5_Witness ==
    /\ phase = "done"
    /\ Len(entities) = 2
    /\ entities[1].type # entities[2].type

\* The text with every NUL replaced by "#", a character that like NUL is no
\* white space, no digit and no part of a keyword.
WithoutNul(text) == [k \in 1..Len(text) |-> IF text[k] = NUL THEN "#" ELSE text[k]]

\* C9: there is a warning iff the text has a NUL, and then it is the one fixed
\* warning; the NUL changes nothing else: the finished parse has the entities
\* parseDxf gives for the same text with another character in place of each
\* NUL.
C9_NulOnlyWarns ==
    /\ Parsing => (warnings # <<>> <=> HasNul(raw))
    /\ Parsing /\ HasNul(raw) => warnings = <<BinaryWarning>>
    /\ phase = "done" => entities = parseDxf(WithoutNul(raw)).entities

\* A finished run on a text with a NUL that extracted an entity.
C9_Witness == phase = "done" /\ HasNul(raw) /\ entities # <<>>

----------------------------------------------------------------------------
(* The extractors on edited entity runs                                    *)

MaxEdits == 2

EOF == <<"E", "O", "F">>
TEXT == <<"T", "E", "X", "T">>

RunPrefix == << <<"0">>, SECTION, <<"2">>, ENTITIES >>
RunSuffix == << <<"0">>, ENDSEC, <<"0">>, EOF >>

RunLine ==
    << <<"0">>, LINE, <<"1", "0">>, <<"0">>, <<"2", "0">>, <<"0">>,
       <<"1", "1">>, <<"1", "0">>, <<"2", "1">>, <<"5">> >>
RunCircle ==
    << <<"0">>, CIRCLE, <<"1", "0">>, <<"4">>, <<"2", "0">>, <<"-", "4">>,
       <<"4", "0">>, <<"2", ".", "5">> >>
RunArc ==
    << <<"0">>, ARC, <<"1", "0">>, <<"1">>, <<"2", "0">>, <<"2">>, <<"4", "0">>, <<"3">>,
       <<"5", "0">>, <<"0">>, <<"5", "1">>, <<"9", "0">> >>
RunLwPolyline ==
    << <<"0">>, LWPOLYLINE, <<"7", "0">>, <<"1">>, <<"1", "0">>, <<"0">>, <<"2", "0">>, <<"0">>,
       <<"1", "0">>, <<"6">>, <<"2", "0">>, <<"0">> >>
RunPolyline ==
    << <<"0">>, POLYLINE, <<"7", "0">>, <<"1">>,
       <<"0">>, VERTEX, <<"1", "0">>, <<"1">>, <<"2", "0">>, <<"1">>,
       <<"0">>, VERTEX, <<"1", "0">>, <<"2">>, <<"2", "0">>, <<"3">>,
       <<"0">>, SEQEND >>

\* The texts the edits start from: one well-formed entity run in an entities
\* section, the section's end, and the end-of-file record.
EntityTexts ==
    {JoinLines(RunPrefix \o run \o RunSuffix) :
        run \in {RunLine, RunCircle, RunArc, RunLwPolyline, RunPolyline}}

\* The value lines an edit may put under a code line.
SpoilValues(codeLine) ==
    IF codeLine = <<"0">> THEN {TEXT}
    ELSE IF codeLine = <<"7", "0">>
         THEN {<<"0">>, <<"2">>, <<"3">>, <<"-", "1">>, <<"1", ".", "5">>, <<"x">>}
    ELSE IF codeLine = <<"4", "0">>
         THEN {<<"0">>, <<"-", "1">>, <<"x">>, InfinityText}
    ELSE {<<"x">>, InfinityText, <<"-", "7", ".", "5">>}

\* The records of the lines ls an edit may touch, counted from 1: those after
\* the section's two records and before the last two.
Editable(ls) == 3..((Len(ls) \div 2) - 2)

SetValue(ls, k, v) == [ls EXCEPT ![2 * k] = v]
DropRec(ls, k) == Take(ls, 2 * k - 2) \o Drop(ls, 2 * k)
InsertRec(ls, k, v) == Take(ls, 2 * k - 2) \o <<ls[2 * k - 1], v>> \o Drop(ls, 2 * k - 2)

SpoiledTexts(ls) ==
    {JoinLines(SetValue(ls, k, v)) :
        <<k, v>> \in {kv \in Editable(ls) \X SpoilValues(<<"0">>) : ls[2 * kv[1] - 1] = <<"0">>}
             \cup {kv \in Editable(ls) \X SpoilValues(<<"7", "0">>) : ls[2 * kv[1] - 1] = <<"7", "0">>}
             \cup {kv \in Editable(ls) \X SpoilValues(<<"4", "0">>) : ls[2 * kv[1] - 1] = <<"4", "0">>}
             \cup {kv \in Editable(ls) \X SpoilValues(<<"1", "0">>) :
                      ls[2 * kv[1] - 1] \notin {<<"0">>, <<"7", "0">>, <<"4", "0">>}}}

DroppedTexts(ls) == {JoinLines(DropRec(ls, k)) : k \in Editable(ls)}

RepeatedTexts(ls) ==
    {JoinLines(InsertRec(ls, kv[1], kv[2])) :
        kv \in {x \in Editable(ls) \X (SpoilValues(<<"7", "0">>) \cup SpoilValues(<<"4", "0">>)
                                        \cup SpoilValues(<<"1", "0">>)) :
                   /\ ls[2 * x[1] - 1] # <<"0">>
                   /\ x[2] \in SpoilValues(ls[2 * x[1] - 1])
                   /\ x[2] # ls[2 * x[1]]}}

InitEntity ==
    /\ InitParser
    /\ shape = NoShape
    /\ raw \in EntityTexts

Edit(texts) ==
    /\ phase = "input"
    /\ runs < MaxEdits
    /\ raw' \in texts
    /\ runs' = runs + 1
    /\ UNCHANGED <<phase, groups, i, inEntitiesSection, entities, warnings, steps, shape, xf>>

\* The value line of one record is replaced.
SpoilRecord == Edit(SpoiledTexts(SplitLines(raw)))
\* One record is taken out.
DropRecord == Edit(DroppedTexts(SplitLines(raw)))
\* A record gets a record of the same code and another value put before it.
RepeatRecord == Edit(RepeatedTexts(SplitLines(raw)))

NextEntity == SpoilRecord \/ DropRecord \/ RepeatRecord \/ StartParse \/ Walk

SpecEntity == InitEntity /\ [][NextEntity]_vars

----------------------------------------------------------------------------
(* Properties of the extractors                                            *)

\* The entity iteration k added to the list, Null when it added none.
Emitted(k) ==
    IF steps[k].after > steps[k].before THEN entities[steps[k].after] ELSE Null

\* The value of the start marker iteration k stood on.
MarkerOf(k) == At(groups, steps[k].at).value

\* The records after the start marker at index at up to, not including, the
\* next code-0 record.
BodyEnd(gs, at) ==
    CHOOSE e \in (at + 1)..Len(gs) :
        /\ e = Len(gs) \/ At(gs, e).code = 0
        /\ \A j \in (at + 1)..(e - 1) : At(gs, j).code # 0
BodyOf(k) == SubSeq(groups, steps[k].at + 2, BodyEnd(groups, steps[k].at))

\* A finite number: a rational with a positive denominator.
FiniteNumber(v) == DOMAIN v = {"n", "d"} /\ v.n \in Int /\ v.d \in Nat \ {0}
FinitePoint(p) == DOMAIN p = {"x", "y"} /\ FiniteNumber(p.x) /\ FiniteNumber(p.y)
Positive(v) == v.n > 0

\* The field constraints of an entity, by its type.
FieldsOk(e) ==
    /\ "type" \in DOMAIN e
    /\ e.type \in {"LINE", "CIRCLE", "ARC", "POLYLINE"}
    /\ e.type = "LINE" =>
           /\ DOMAIN e = {"type", "start", "end"}
           /\ FinitePoint(e.start) /\ FinitePoint(e.end)
    /\ e.type = "CIRCLE" =>
           /\ DOMAIN e = {"type", "center", "radius"}
           /\ FinitePoint(e.center)
           /\ FiniteNumber(e.radius) /\ Positive(e.radius)
    /\ e.type = "ARC" =>
           /\ DOMAIN e = {"type", "center", "radius", "startAngleDeg", "endAngleDeg"}
           /\ FinitePoint(e.center)
           /\ FiniteNumber(e.radius) /\ Positive(e.radius)
           /\ FiniteNumber(e.startAngleDeg) /\ FiniteNumber(e.endAngleDeg)
    /\ e.type = "POLYLINE" =>
           /\ DOMAIN e = {"type", "points", "closed"}
           /\ Len(e.points) >= 2
           /\ \A k \in 1..Len(e.points) : FinitePoint(e.points[k])
           /\ e.closed \in BOOLEAN

\* C2: every entity in the list, at every moment of the parse and in the
\* returned Document, satisfies the field constraints of its type: a Line has
\* two points, a Circle and an Arc a center and a radius above 0, an Arc two
\* angles, a Polyline at least 2 points, and every number is finite.
C2_EntitiesSatisfyConstraints ==
    \A k \in 1..Len(entities) : FieldsOk(entities[k])

\* A finished parse of an edited text that gave an entity.
C2_Witness ==
    /\ phase = "done"
    /\ runs = MaxEdits
    /\ \E k \in 1..Len(entities) : entities[k].type \in {"CIRCLE", "ARC"}

\* The first record of body with the code: its index, 0 when there is none.
FirstOf(body, code) ==
    IF \E k \in 1..Len(body) : body[k].code = code
    THEN CHOOSE k \in 1..Len(body) :
             body[k].code = code /\ \A j \in 1..(k - 1) : body[j].code # code
    ELSE 0

\* A field is present when the first body record with its code parses to a
\* finite number.
Present(body, code) ==
    FirstOf(body, code) # 0 /\ FiniteNumber(ParseFloat(body[FirstOf(body, code)].value))
ValueOf(body, code) == ParseFloat(body[FirstOf(body, code)].value)

RefLine(body) ==
    IF \A c \in {10, 20, 11, 21} : Present(body, c)
    THEN [type |-> "LINE",
          start |-> [x |-> ValueOf(body, 10), y |-> ValueOf(body, 20)],
          end |-> [x |-> ValueOf(body, 11), y |-> ValueOf(body, 21)]]
    ELSE Null

CircleCondition(body) ==
    (\A c \in {10, 20, 40} : Present(body, c)) /\ Positive(ValueOf(body, 40))

RefCircle(body) ==
    IF CircleCondition(body)
    THEN [type |-> "CIRCLE",
          center |-> [x |-> ValueOf(body, 10), y |-> ValueOf(body, 20)],
          radius |-> ValueOf(body, 40)]
    ELSE Null

RefArc(body) ==
    IF CircleCondition(body) /\ Present(body, 50) /\ Present(body, 51)
    THEN [type |-> "ARC",
          center |-> [x |-> ValueOf(body, 10), y |-> ValueOf(body, 20)],
          radius |-> ValueOf(body, 40),
          startAngleDeg |-> ValueOf(body, 50), endAngleDeg |-> ValueOf(body, 51)]
    ELSE Null

RefSimple(marker, body) ==
    IF marker = LINE THEN RefLine(body)
    ELSE IF marker = CIRCLE THEN RefCircle(body)
    ELSE IF marker = ARC THEN RefArc(body)
    ELSE Null

\* C6: an iteration on a start marker other than LWPOLYLINE and POLYLINE adds
\* exactly what the reference gives for the marker and its body: a Line iff
\* 10, 20, 11 and 21 are present, a Circle iff 10, 20 and 40 are present and
\* the radius is above 0, an Arc iff moreover 50 and 51 are present, nothing
\* for any other marker; and it ends at the body's end.
C6_SimpleEntityMatchesReference ==
    \A k \in StepsOf({"SIMPLE"}) :
        MarkerOf(k) # LWPOLYLINE =>
            /\ Emitted(k) = RefSimple(MarkerOf(k), BodyOf(k))
            /\ steps[k].next = BodyEnd(groups, steps[k].at)

\* A finished parse in which a body with two records of one code gave an
\* entity, and one in which a TEXT run gave none.
C6_Witness ==
    /\ phase = "done"
    /\ \E k \in StepsOf({"SIMPLE"}) :
           /\ MarkerOf(k) \in {LINE, CIRCLE, ARC}
           /\ Emitted(k) # Null
           /\ \E a, b \in 1..Len(BodyOf(k)) :
                  /\ a < b
                  /\ BodyOf(k)[a].code = BodyOf(k)[b].code
                  /\ BodyOf(k)[a].value # BodyOf(k)[b].value

\* The integer part of a finite number, rounded toward zero.
IntegerPart(v) ==
    CHOOSE t \in -100..100 :
        IF v.n >= 0 THEN t * v.d <= v.n /\ v.n < (t + 1) * v.d
        ELSE (t - 1) * v.d < v.n /\ v.n <= t * v.d

Odd(t) == \E m \in -100..100 : t = 2 * m + 1

\* The closed value the code-70 record of a compact polyline body asks for.
RefClosed(body) ==
    IF Present(body, 70) THEN Odd(IntegerPart(ValueOf(body, 70))) ELSE FALSE

\* The value line of the body's code-70 record, the empty line when absent.
FlagsText(body) == IF FirstOf(body, 70) = 0 THEN <<>> ELSE body[FirstOf(body, 70)].value

\* C7: a compact polyline that gives an entity is closed iff bit 0 of the
\* truncated value of its code-70 record is 1: closed for the flags 1 and 3,
\* open for 0 and 2, and open when the record is absent or no number.
C7_ClosedIsLowFlagBit ==
    \A k \in StepsOf({"SIMPLE"}) :
        (MarkerOf(k) = LWPOLYLINE /\ Emitted(k) # Null) =>
            /\ Emitted(k).closed <=> RefClosed(BodyOf(k))
            /\ FlagsText(BodyOf(k)) \in {<<"1">>, <<"3">>} => Emitted(k).closed
            /\ FlagsText(BodyOf(k)) \in {<<"0">>, <<"2">>, <<"x">>, <<>>} => ~Emitted(k).closed

\* A finished parse of a compact polyline with the flags 3 that gave a closed
\* polyline.
C7_Witness ==
    /\ phase = "done"
    /\ \E k \in StepsOf({"SIMPLE"}) :
           /\ MarkerOf(k) = LWPOLYLINE
           /\ Emitted(k) # Null
           /\ FlagsText(BodyOf(k)) = <<"3">>
           /\ Emitted(k).closed

----------------------------------------------------------------------------
(* One polyline in its two forms                                           *)

MaxHeader == 2
MaxVertices == 2

\* The header records and the coordinate texts a polyline is made of.
HeaderRecords ==
    { << <<"7", "0">>, <<"1">> >>, << <<"7", "0">>, <<"0">> >>,
      << <<"7", "0">>, <<"x">> >>, << <<"8">>, <<"0">> >> }
CoordTexts == { <<"0">>, <<"4">>, <<"x">> }

RECURSIVE Flatten(_)
Flatten(ss) == IF ss = <<>> THEN <<>> ELSE Head(ss) \o Flatten(Tail(ss))

\* A vertex of the compact form: a 10/20 pair in the body.
CompactVertex(v) == << <<"1", "0">>, v[1], <<"2", "0">>, v[2] >>
\* A vertex of the nested form: a VERTEX record with its 10/20 pair.
NestedVertex(v) == << <<"0">>, VERTEX, <<"1", "0">>, v[1], <<"2", "0">>, v[2] >>

CompactLines(sh) ==
    << <<"0">>, LWPOLYLINE >> \o Flatten(sh.header)
        \o Flatten([k \in 1..Len(sh.vertices) |-> CompactVertex(sh.vertices[k])])

NestedLines(sh) ==
    << <<"0">>, POLYLINE >> \o Flatten(sh.header)
        \o Flatten([k \in 1..Len(sh.vertices) |-> NestedVertex(sh.vertices[k])])
        \o << <<"0">>, SEQEND >>

\* The text of an entities section holding the polyline sh first in the
\* compact and then in the nested form.
PolyText(sh) == JoinLines(RunPrefix \o CompactLines(sh) \o NestedLines(sh) \o RunSuffix)

InitPoly ==
    /\ InitParser
    /\ shape = NoShape
    /\ raw = PolyText(NoShape)

Reshape(sh) ==
    /\ phase = "input"
    /\ shape' = sh
    /\ raw' = PolyText(sh)
    /\ runs' = runs + 1
    /\ UNCHANGED <<phase, groups, i, inEntitiesSection, entities, warnings, steps, xf>>

\* The polyline gets one more header record, in both forms.
AddHeaderRecord ==
    /\ Len(shape.header) < MaxHeader
    /\ \E rec \in HeaderRecords :
           Reshape([shape EXCEPT !.header = Append(shape.header, rec)])

\* The polyline gets one more vertex, in both forms.
AddVertex ==
    /\ Len(shape.vertices) < MaxVertices
    /\ \E x \in CoordTexts : \E y \in CoordTexts :
           Reshape([shape EXCEPT !.vertices = Append(shape.vertices, <<x, y>>)])

NextPoly == AddHeaderRecord \/ AddVertex \/ StartParse \/ Walk

SpecPoly == InitPoly /\ [][NextPoly]_vars

\* The iterations on the compact and on the nested form of the polyline.
CompactSteps == {k \in StepsOf({"SIMPLE"}) : MarkerOf(k) = LWPOLYLINE}
NestedSteps == StepsOf({"POLYLINE"})

\* C8: the nested and the compact form of one polyline, with the same header
\* records and the same vertex coordinates, give the same result: both are
\* dropped, or both give a Polyline with the same points in the same order
\* and the same closed value.
C8_BothFormsAgree ==
    phase = "done" =>
        \A k \in CompactSteps : \A l \in NestedSteps : Emitted(k) = Emitted(l)

----------------------------------------------------------------------------
(* The renderer's view transform                                           *)

\* The 1e-6 that floors the world extents and the base scale.
Epsilon == Rat(1, 1000000)
\* The limits of the zoom: 0.02 and 200.
MinZoom == Rat(1, 50)
MaxZoom == Num(200)

clamp(value, min, max) == MathMin(max, MathMax(min, value))

\* Number.isFinite(pan) ? pan : 0
FinitePan(pan) == IF IsFinite(pan) THEN pan ELSE Num(0)

Half(v) == RDiv(v, Num(2))
Twice(v) == RMul(v, Num(2))

\* The record createTransform returns, from its local constants.
TransformOf(bounds, width, height, worldWidth, worldHeight, baseScale, viewport) ==
    [baseScale |-> baseScale,
     offsetX |-> Half(RSub(width, RMul(worldWidth, baseScale))),
     offsetY |-> Half(RSub(height, RMul(worldHeight, baseScale))),
     minX |-> bounds.minX,
     minY |-> bounds.minY,
     canvasWidth |-> width,
     canvasHeight |-> height,
     centerX |-> Half(width),
     centerY |-> Half(height),
     zoom |-> clamp(viewport.zoom, MinZoom, MaxZoom),
     panX |-> FinitePan(viewport.panX),
     panY |-> FinitePan(viewport.panY)]

\* createTransform from safePadding and the world extents on.
TransformFor(bounds, width, height, safePadding, worldWidth, worldHeight, viewport) ==
    TransformOf(bounds, width, height, worldWidth, worldHeight,
                RMax(Epsilon, RMin(RDiv(RSub(width, Twice(safePadding)), worldWidth),
                                   RDiv(RSub(height, Twice(safePadding)), worldHeight))),
                viewport)

\* const safePadding = Math.min(Math.max(padding, 0), Math.min(width, height) / 2)
safePadding(padding, width, height) ==
    RMin(RMax(padding, Num(0)), Half(RMin(width, height)))

createTransform(bounds, width, height, padding, viewport) ==
    TransformFor(bounds, width, height,
                 safePadding(padding, width, height),
                 RMax(RSub(bounds.maxX, bounds.minX), Epsilon),
                 RMax(RSub(bounds.maxY, bounds.minY), Epsilon),
                 viewport)

worldToBase(point, transform) ==
    [x |-> RAdd(RMul(RSub(point.x, transform.minX), transform.baseScale), transform.offsetX),
     y |-> RSub(transform.canvasHeight,
                RAdd(RMul(RSub(point.y, transform.minY), transform.baseScale),
                     transform.offsetY))]

applyViewportNoPan(basePoint, transform) ==
    [x |-> RAdd(transform.centerX,
                RMul(RSub(basePoint.x, transform.centerX), transform.zoom)),
     y |-> RAdd(transform.centerY,
                RMul(RSub(basePoint.y, transform.centerY), transform.zoom))]

applyViewport(basePoint, transform) ==
    [x |-> RAdd(RAdd(transform.centerX,
                     RMul(RSub(basePoint.x, transform.centerX), transform.zoom)),
                transform.panX),
     y |-> RAdd(RAdd(transform.centerY,
                     RMul(RSub(basePoint.y, transform.centerY), transform.zoom)),
                transform.panY)]

toScreen(point, transform) == applyViewport(worldToBase(point, transform), transform)

\* The return of screenToWorld, from its constants baseX and baseY.
BaseToWorld(baseX, baseY, transform) ==
    [x |-> RAdd(RDiv(RSub(baseX, transform.offsetX), transform.baseScale), transform.minX),
     y |-> RAdd(RDiv(RSub(RSub(transform.canvasHeight, baseY), transform.offsetY),
                     transform.baseScale),
                transform.minY)]

screenToWorld(screenPoint, transform) ==
    BaseToWorld(
        RAdd(RDiv(RSub(RSub(screenPoint.x, transform.panX), transform.centerX),
                  transform.zoom),
             transform.centerX),
        RAdd(RDiv(RSub(RSub(screenPoint.y, transform.panY), transform.centerY),
                  transform.zoom),
             transform.centerY),
        transform)

MaxCoord == 1

Bounds(minX, minY, maxX, maxY) ==
    [minX |-> Num(minX), minY |-> Num(minY), maxX |-> Num(maxX), maxY |-> Num(maxY)]

Scene(bounds, width, height, padding) ==
    [bounds |-> bounds, width |-> Num(width), height |-> Num(height),
     padding |-> Num(padding)]

\* Drawings with non-degenerate extents on canvases: a wide and a tall
\* drawing, a negative padding, and a padding above half the canvas and a
\* canvas of no size, for both of which the base scale is floored.
Scenes ==
    { Scene(Bounds(0, 0, 10, 5), 800, 600, 20),
      Scene(Bounds(-3, -2, 1, 6), 300, 150, -5),
      Scene(Bounds(0, 0, 10, 5), 8, 6, 1000),
      Scene(Bounds(-7, 1, 0, 2), 0, 0, 0),
      Scene(Bounds(2, 2, 3, 4), 64, 64, 0) }

\* Zooms inside the limits, at them and beyond them.
Zooms == {Rat(1, 100), MinZoom, Num(1), Rat(3, 2), MaxZoom, Num(1000)}
Pans == {Num(0), Num(-4), Rat(5, 2), NaN}

\* Document points: a grid of steps of 3/2.
WorldPoints ==
    {[x |-> Rat(3 * a, 2), y |-> Rat(3 * b, 2)] : a, b \in -MaxCoord..MaxCoord}

\* Screen points: a grid over and around the canvas.
ScreenPoints ==
    {[x |-> Num(2 * a), y |-> Rat(3 * b, 2)] : a, b \in -MaxCoord..MaxCoord}

InitXform ==
    /\ phase = "view"
    /\ runs = 0
    /\ raw = <<>>
    /\ groups = <<>>
    /\ i = 0
    /\ inEntitiesSection = FALSE
    /\ entities = <<>>
    /\ warnings = <<>>
    /\ steps = <<>>
    /\ shape = NoShape
    /\ xf = NoTransform

ParserUnchanged ==
    UNCHANGED <<phase, runs, raw, groups, i, inEntitiesSection, entities, warnings,
                steps, shape>>

\* A transform is made for a drawing's bounds, a canvas and a viewport.
CreateTransform ==
    /\ phase = "view"
    /\ xf.stage = "none"
    /\ \E scene \in Scenes : \E zoom \in Zooms : \E panX \in Pans : \E panY \in Pans :
           xf' = [stage |-> "ready",
                  transform |-> createTransform(scene.bounds, scene.width, scene.height,
                                                scene.padding,
                                                [zoom |-> zoom, panX |-> panX,
                                                 panY |-> panY])]
    /\ ParserUnchanged

\* A document point is projected, or the document point screenToWorld gave.
ToScreen ==
    /\ phase = "view"
    /\ \/ /\ xf.stage = "ready"
          /\ \E p \in WorldPoints :
                 xf' = [stage |-> "projected", transform |-> xf.transform,
                        point |-> p, image |-> toScreen(p, xf.transform)]
       \/ /\ xf.stage = "unprojected"
          /\ xf' = [stage |-> "screenAgain", transform |-> xf.transform,
                    point |-> xf.point, image |-> xf.image,
                    back |-> toScreen(xf.image, xf.transform)]
    /\ ParserUnchanged

\* A screen point is taken back to the document, or the screen point toScreen
\* gave.
ScreenToWorld ==
    /\ phase = "view"
    /\ \/ /\ xf.stage = "ready"
          /\ \E sp \in ScreenPoints :
                 xf' = [stage |-> "unprojected", transform |-> xf.transform,
                        point |-> sp, image |-> screenToWorld(sp, xf.transform)]
       \/ /\ xf.stage = "projected"
          /\ xf' = [stage |-> "worldAgain", transform |-> xf.transform,
                    point |-> xf.point, image |-> xf.image,
                    back |-> screenToWorld(xf.image, xf.transform)]
    /\ ParserUnchanged

NextXform == CreateTransform \/ ToScreen \/ ScreenToWorld

SpecXform == InitXform /\ [][NextXform]_vars

----------------------------------------------------------------------------
(* What createTransform makes of any viewport                              *)

\* Zooms and pans of every kind: below, inside and above the limits, and the
\* three non-finite numbers.
AnyZooms == Zooms \cup {Num(0), Num(-3), NaN, PosInf, NegInf}
AnyPans == Pans \cup {PosInf, NegInf}

\* createTransform is called with a drawing's bounds, a canvas, a padding and
\* any viewport; its arguments are kept beside its result.
CreateAnyTransform ==
    /\ phase = "view"
    /\ xf.stage = "none"
    /\ \E scene \in Scenes : \E zoom \in AnyZooms : \E panX \in AnyPans : \E panY \in AnyPans :
           xf' = [stage |-> "made",
                  scene |-> scene,
                  viewport |-> [zoom |-> zoom, panX |-> panX, panY |-> panY],
                  safePadding |-> safePadding(scene.padding, scene.width, scene.height),
                  transform |-> createTransform(scene.bounds, scene.width, scene.height,
                                                scene.padding,
                                                [zoom |-> zoom, panX |-> panX,
                                                 panY |-> panY])]
    /\ ParserUnchanged

\* The caller returns: the transform is not kept from one call to the next.
DropTransform ==
    /\ phase = "view"
    /\ xf.stage = "made"
    /\ xf' = NoTransform
    /\ ParserUnchanged

NextViewport == CreateAnyTransform \/ DropTransform

SpecViewport == InitXform /\ [][NextViewport]_vars

\* min(200, max(0.02, zoom)) of a zoom that is a number or an infinity; a NaN
\* has no place in the order and is left as it is.
LimitedZoom(zoom) ==
    IF zoom = NaN THEN NaN
    ELSE IF zoom = NegInf THEN MinZoom
    ELSE IF zoom = PosInf THEN MaxZoom
    ELSE IF RLt(zoom, MinZoom) THEN MinZoom
    ELSE IF RLt(MaxZoom, zoom) THEN MaxZoom
    ELSE zoom

\* The padding within [0, min(width, height)/2] nearest to padding.
LimitedPadding(padding, width, height) ==
    IF padding.n < 0 THEN Num(0)
    ELSE IF RLt(width, height)
         THEN (IF RLt(Half(width), padding) THEN Half(width) ELSE padding)
    ELSE (IF RLt(Half(height), padding) THEN Half(height) ELSE padding)

ZoomInRange(zoom) ==
    FiniteNumber(zoom) /\ RLe(MinZoom, zoom) /\ RLe(zoom, MaxZoom)

PanKept(stored, given) ==
    IF FiniteNumber(given) THEN stored = given ELSE stored = Num(0)

\* C11: for every viewport passed to createTransform, the stored zoom lies in
\* [0.02, 200] and is min(200, max(0.02, viewport.zoom)), each stored pan is
\* the viewport's when that is finite and 0 otherwise, and the padding used is
\* min(max(padding, 0), min(width, height)/2).
C11_ViewportIsSanitized ==
    xf.stage = "made" =>
        /\ ZoomInRange(xf.transform.zoom)
        /\ xf.transform.zoom = LimitedZoom(xf.viewport.zoom)
        /\ PanKept(xf.transform.panX, xf.viewport.panX)
        /\ PanKept(xf.transform.panY, xf.viewport.panY)
        /\ xf.safePadding
               = LimitedPadding(xf.scene.padding, xf.scene.width, xf.scene.height)

\* What does hold: the same with the zoom's range asked only of a viewport
\* whose zoom is not NaN.
ViewportIsSanitizedUnlessNaN ==
    xf.stage = "made" =>
        /\ xf.viewport.zoom # NaN => ZoomInRange(xf.transform.zoom)
        /\ xf.transform.zoom = LimitedZoom(xf.viewport.zoom)
        /\ PanKept(xf.transform.panX, xf.viewport.panX)
        /\ PanKept(xf.transform.panY, xf.viewport.panY)
        /\ xf.safePadding
               = LimitedPadding(xf.scene.padding, xf.scene.width, xf.scene.height)

----------------------------------------------------------------------------
(* The renderer's bounds of a drawing                                      *)

Point(x, y) == [x |-> Num(x), y |-> Num(y)]

\* const includePoint = (point) => ...: the bounds after the point is included.
includePoint(bounds, point) ==
    IF bounds = Null
    THEN [minX |-> point.x, minY |-> point.y, maxX |-> point.x, maxY |-> point.y]
    ELSE [minX |-> RMin(bounds.minX, point.x), minY |-> RMin(bounds.minY, point.y),
          maxX |-> RMax(bounds.maxX, point.x), maxY |-> RMax(bounds.maxY, point.y)]

includeCircleCenter(bounds, center, radius) == includePoint(bounds, center)

\* const includeCircle = (center, radius) => ...
includeCircle(bounds, center, radius) ==
    includePoint(includePoint(bounds, [x |-> RSub(center.x, radius),
                                       y |-> RSub(center.y, radius)]),
                 [x |-> RAdd(center.x, radius), y |-> RAdd(center.y, radius)])

\* for (const point of entity.points) includePoint(point), from points[k] on.
RECURSIVE includePoints(_, _, _)
includePoints(bounds, points, k) ==
    IF k > Len(points) THEN bounds
    ELSE includePoints(includePoint(bounds, points[k]), points, k + 1)

\* The switch of computeBounds on the entity's type.
includeEntity(bounds, entity) ==
    IF entity.type = "LINE"
    THEN includePoint(includePoint(bounds, entity.start), entity.end)
    ELSE IF entity.type = "POLYLINE" THEN includePoints(bounds, entity.points, 1)
    ELSE IF entity.type = "CIRCLE" THEN includeCircle(bounds, entity.center, entity.radius)
    ELSE IF entity.type = "ARC" THEN includeCircle(bounds, entity.center, entity.radius)
    ELSE bounds

\* The for loop of computeBounds from entities[k] on.
RECURSIVE BoundsFrom(_, _, _)
BoundsFrom(ents, k, bounds) ==
    IF k > Len(ents) THEN bounds
    ELSE BoundsFrom(ents, k + 1, includeEntity(bounds, ents[k]))

computeBounds(ents) == BoundsFrom(ents, 1, Null)

MaxEntities == 2

\* Entities as parseDxf gives them: every field set, radii above 0, polylines
\* of 2 points or more.
DrawingEntities ==
    { [type |-> "LINE", start |-> Point(0, 0), end |-> Point(10, 5)],
      [type |-> "LINE", start |-> Point(3, 3), end |-> Point(3, 3)],
      [type |-> "LINE", start |-> Point(-2, 7), end |-> Point(4, -1)],
      [type |-> "POLYLINE", points |-> <<Point(0, 0), Point(6, 0), Point(6, 8)>>,
       closed |-> TRUE],
      [type |-> "POLYLINE", points |-> <<Point(-5, 1), Point(2, -4)>>, closed |-> FALSE],
      [type |-> "CIRCLE", center |-> Point(4, -4), radius |-> Rat(5, 2)],
      [type |-> "CIRCLE", center |-> Point(0, 0), radius |-> Num(12)],
      [type |-> "ARC", center |-> Point(1, 2), radius |-> Num(3),
       startAngleDeg |-> Num(0), endAngleDeg |-> Num(90)],
      [type |-> "ARC", center |-> Point(-6, -6), radius |-> Rat(1, 2),
       startAngleDeg |-> Num(350), endAngleDeg |-> Num(10)] }

InitBounds ==
    /\ InitXform

\* The document gets one more entity.
AddEntity ==
    /\ phase = "view"
    /\ xf.stage = "none"
    /\ Len(entities) < MaxEntities
    /\ \E e \in DrawingEntities : entities' = Append(entities, e)
    /\ UNCHANGED <<phase, runs, raw, groups, i, inEntitiesSection, warnings, steps,
                   shape, xf>>

\* computeBounds is called on the document's entities.
ComputeBounds ==
    /\ phase = "view"
    /\ xf.stage = "none"
    /\ xf' = [stage |-> "bounded", bounds |-> computeBounds(entities)]
    /\ ParserUnchanged

NextBounds == AddEntity \/ ComputeBounds

SpecBounds == InitBounds /\ [][NextBounds]_vars

\* The points a box around the entity must hold: the endpoints of a Line, the
\* points of a Polyline, the four corners of the square around a Circle or
\* an Arc.
MustHold(e) ==
    IF e.type = "LINE" THEN {e.start, e.end}
    ELSE IF e.type = "POLYLINE" THEN {e.points[k] : k \in 1..Len(e.points)}
    ELSE {[x |-> RAdd(e.center.x, RMul(Num(sx), e.radius)),
           y |-> RAdd(e.center.y, RMul(Num(sy), e.radius))] : sx, sy \in {-1, 1}}

MustHoldAll(ents) == UNION {MustHold(ents[k]) : k \in 1..Len(ents)}

InBox(p, box) ==
    /\ RLe(box.minX, p.x) /\ RLe(p.x, box.maxX)
    /\ RLe(box.minY, p.y) /\ RLe(p.y, box.maxY)

\* The box holds the points and each of its sides touches one of them.
SmallestBoxOf(box, points) ==
    /\ \A p \in points : InBox(p, box)
    /\ \E p \in points : p.x = box.minX
    /\ \E p \in points : p.x = box.maxX
    /\ \E p \in points : p.y = box.minY
    /\ \E p \in points : p.y = box.maxY

\* C12: computeBounds gives none iff the entity list is empty; otherwise its
\* box holds both endpoints of every Line, every point of every Polyline and
\* the whole square around every Circle and Arc, and is the smallest box
\* that does.
C12_BoundsAreSmallestBox ==
    xf.stage = "bounded" =>
        /\ xf.bounds = Null <=> entities = <<>>
        /\ entities # <<>> => SmallestBoxOf(xf.bounds, MustHoldAll(entities))

\* Bounds of a document with a Circle or an Arc and another entity.
C12_Witness ==
    /\ xf.stage = "bounded"
    /\ Len(entities) = 2
    /\ entities[1].type # entities[2].type
    /\ \E k \in 1..2 : entities[k].type \in {"CIRCLE", "ARC"}
    /\ xf.bounds # Null

----------------------------------------------------------------------------
(* The doubles of JavaScript, where the rounding of a result matters       *)

\* A natural number of any size is the sequence of its digits in base 2^15,
\* lowest first, without leading zeros; 0 is the empty sequence.
RECURSIVE Pow2(_)
Pow2(k) == IF k = 0 THEN 1 ELSE 2 * Pow2(k - 1)

Limb == Pow2(15)

BigTrim(a) ==
    IF a = <<>> THEN a
    ELSE SubSeq(a, 1, CHOOSE k \in 0..Len(a) :
                          /\ k = 0 \/ a[k] # 0
                          /\ \A j \in (k + 1)..Len(a) : a[j] = 0)

RECURSIVE BigOfInt(_)
BigOfInt(k) == IF k = 0 THEN <<>> ELSE <<k % Limb>> \o BigOfInt(k \div Limb)

\* The value of a number that fits an integer.
RECURSIVE IntOfBig(_)
IntOfBig(a) == IF a = <<>> THEN 0 ELSE a[1] + Limb * IntOfBig(Tail(a))

\* -1, 0 or 1 as a is below, equal to or above b.
BigCompare(a, b) ==
    IF Len(a) # Len(b) THEN (IF Len(a) < Len(b) THEN -1 ELSE 1)
    ELSE IF a = b THEN 0
    ELSE IF a[CHOOSE k \in 1..Len(a) : a[k] # b[k] /\ \A j \in (k + 1)..Len(a) : a[j] = b[j]]
              < b[CHOOSE k \in 1..Len(a) : a[k] # b[k] /\ \A j \in (k + 1)..Len(a) : a[j] = b[j]]
         THEN -1
    ELSE 1

LimbAt(a, k) == IF k <= Len(a) THEN a[k] ELSE 0

\* a + b from digit k on, with the carry so far.
RECURSIVE BigAddFrom(_, _, _, _)
BigAddFrom(a, b, k, carry) ==
    IF k > Len(a) /\ k > Len(b)
    THEN (IF carry = 0 THEN <<>> ELSE <<carry>>)
    ELSE <<(LimbAt(a, k) + LimbAt(b, k) + carry) % Limb>>
             \o BigAddFrom(a, b, k + 1, (LimbAt(a, k) + LimbAt(b, k) + carry) \div Limb)

BigAdd(a, b) == BigAddFrom(a, b, 1, 0)

\* a - b for a >= b, from digit k on, with the borrow so far.
RECURSIVE BigSubFrom(_, _, _, _)
BigSubFrom(a, b, k, borrow) ==
    IF k > Len(a) THEN <<>>
    ELSE <<(a[k] - LimbAt(b, k) - borrow) % Limb>>
             \o BigSubFrom(a, b, k + 1, IF a[k] - LimbAt(b, k) - borrow < 0 THEN 1 ELSE 0)

BigSub(a, b) == BigTrim(BigSubFrom(a, b, 1, 0))

\* a * f for a factor f below 2^15, from digit k on.
RECURSIVE BigScaleFrom(_, _, _, _)
BigScaleFrom(a, f, k, carry) ==
    IF k > Len(a) THEN (IF carry = 0 THEN <<>> ELSE <<carry>>)
    ELSE <<(a[k] * f + carry) % Limb>>
             \o BigScaleFrom(a, f, k + 1, (a[k] * f + carry) \div Limb)

BigScale(a, f) == IF f = 0 THEN <<>> ELSE BigScaleFrom(a, f, 1, 0)

\* a * b, by the digits of b from digit k on.
RECURSIVE BigMulFrom(_, _, _)
BigMulFrom(a, b, k) ==
    IF k > Len(b) THEN <<>>
    ELSE BigAdd(BigScale(a, b[k]),
                IF BigMulFrom(a, b, k + 1) = <<>> THEN <<>>
                ELSE <<0>> \o BigMulFrom(a, b, k + 1))

BigMul(a, b) == BigTrim(BigMulFrom(a, b, 1))

\* a * 2^k
BigShift(a, k) ==
    IF a = <<>> THEN <<>>
    ELSE [j \in 1..(k \div 15) |-> 0] \o BigScale(a, Pow2(k % 15))

\* The number of binary digits of a.
RECURSIVE BitsOfInt(_)
BitsOfInt(k) == IF k = 0 THEN 0 ELSE 1 + BitsOfInt(k \div 2)
BigBits(a) == IF a = <<>> THEN 0 ELSE 15 * (Len(a) - 1) + BitsOfInt(a[Len(a)])

\* The digit of a quotient: the largest q with d * q <= r, for a remainder
\* r < d * 2^15 and a divisor d whose highest digit is 2^14 or more.  The two
\* highest digits of r over the highest digit of d overshoot q by 2 at most.
HighOver(r, d) ==
    ((IF Len(r) > Len(d) THEN r[Len(d) + 1] ELSE 0) * Limb + r[Len(d)]) \div d[Len(d)]
DigitNear(r, d, guess) ==
    CHOOSE q \in (IF guess < 2 THEN 0 ELSE guess - 2)..guess :
        /\ BigCompare(BigScale(d, q), r) <= 0
        /\ BigCompare(BigScale(d, q + 1), r) > 0
QuotientDigit(r, d) ==
    IF BigCompare(r, d) < 0 THEN 0
    ELSE DigitNear(r, d, IF HighOver(r, d) > Limb - 1 THEN Limb - 1 ELSE HighOver(r, d))

\* Long division: the digits of n from digit k down are brought into the
\* remainder r one by one; q holds the quotient's digits found so far.
RECURSIVE DivideFrom(_, _, _, _, _)
DivideTake(n, d, k, q, r, digit) ==
    IF digit = 0 THEN DivideFrom(n, d, k - 1, <<0>> \o q, r)
    ELSE DivideFrom(n, d, k - 1, <<digit>> \o q, BigSub(r, BigScale(d, digit)))
DivideDigit(n, d, k, q, r) == DivideTake(n, d, k, q, r, QuotientDigit(r, d))
DivideFrom(n, d, k, q, r) ==
    IF k = 0 THEN [q |-> BigTrim(q), r |-> r, d |-> d]
    ELSE DivideDigit(n, d, k, q, BigTrim(<<n[k]>> \o r))

\* The quotient q and the remainder r of n by d > 0, after both were scaled
\* by the power of 2 that brings the highest digit of d to 2^14 or more; d is
\* the scaled divisor, which the remainder is one of.
DivideScaled(n, d) == DivideFrom(n, d, Len(n), <<>>, <<>>)
BigDivMod(n, d) ==
    DivideScaled(BigShift(n, 15 * Len(d) - BigBits(d)), BigShift(d, 15 * Len(d) - BigBits(d)))

\* A double is a sign s, and for s # 0 a significand m in [2^52, 2^53) and an
\* exponent e: the number s * m * 2^e.
DoubleZero == [s |-> 0, m |-> <<>>, e |-> 0]
Two52 == <<0, 0, 0, 128>>
Two53 == <<0, 0, 0, 256>>

\* q rounded to the nearest, ties to even, given the remainder r of the
\* division by d that gave q.
RoundedUp(q, r, d) ==
    \/ BigCompare(BigScale(r, 2), d) > 0
    \/ BigCompare(BigScale(r, 2), d) = 0 /\ q # <<>> /\ q[1] % 2 = 1

Significand(s, q, up, e) ==
    IF up /\ BigAdd(q, <<1>>) = Two53 THEN [s |-> s, m |-> Two52, e |-> e + 1]
    ELSE IF up THEN [s |-> s, m |-> BigAdd(q, <<1>>), e |-> e]
    ELSE [s |-> s, m |-> q, e |-> e]

RoundQuotient(s, qr, e) == Significand(s, qr.q, RoundedUp(qr.q, qr.r, qr.d), e)

\* n / d * 2^e with the division scaled by 2^shift.
ScaledQuotient(s, n, d, e, shift) ==
    IF shift >= 0 THEN RoundQuotient(s, BigDivMod(BigShift(n, shift), d), e - shift)
    ELSE RoundQuotient(s, BigDivMod(n, BigShift(d, -shift)), e - shift)

\* Whether n * 2^shift / d has 54 binary digits rather than 53.
TooLong(n, d, shift) ==
    IF shift >= 0 THEN BigCompare(BigShift(n, shift), BigShift(d, 53)) >= 0
    ELSE BigCompare(n, BigShift(d, 53 - shift)) >= 0

\* The double nearest to s * n / d * 2^e, for n, d > 0.
RoundToDouble(s, n, d, e, shift) ==
    IF TooLong(n, d, shift) THEN ScaledQuotient(s, n, d, e, shift - 1)
    ELSE ScaledQuotient(s, n, d, e, shift)

NearestDouble(s, n, d, e) == RoundToDouble(s, n, d, e, 53 - (BigBits(n) - BigBits(d)))

\* x * y and x / y of JavaScript.
DoubleTimes(x, y) ==
    IF x.s = 0 \/ y.s = 0 THEN DoubleZero
    ELSE NearestDouble(x.s * y.s, BigMul(x.m, y.m), <<1>>, x.e + y.e)
DoubleOver(x, y) ==
    IF x.s = 0 THEN DoubleZero
    ELSE NearestDouble(x.s * y.s, x.m, y.m, x.e - y.e)

SignOf(k) == IF k < 0 THEN -1 ELSE IF k = 0 THEN 0 ELSE 1

\* The double nearest to the rational v.
DoubleOf(v) ==
    IF v.n = 0 THEN DoubleZero
    ELSE NearestDouble(SignOf(v.n), BigOfInt(Abs(v.n)), BigOfInt(v.d), 0)

\* Math.ceil of a double above 0 that fits an integer.
CeilOfParts(qr) == IntOfBig(qr.q) + (IF qr.r = <<>> THEN 0 ELSE 1)
DoubleCeil(x) ==
    IF x.e >= 0 THEN IntOfBig(BigShift(x.m, x.e))
    ELSE CeilOfParts(BigDivMod(x.m, BigShift(<<1>>, -x.e)))

\* Math.PI is 7074237752028440 * 2^-51, here with the significand in its
\* digits in base 2^15, lowest first.
MathPi == [s |-> 1, m |-> <<11544, 10376, 2029, 201>>, e |-> -51]

----------------------------------------------------------------------------
(* The sweep of an arc                                                     *)

\* An angle in radians, the result of degToRad, is kept as the rational it is
\* a multiple of pi by; the double the source has for it is computed, where
\* its rounding matters, from the degrees it was made from.  The angles in
\* degrees are multiples of 1/4 below 2^20, on which the sums, differences
\* and remainders of doubles are exact.
Radians(q) == [piTimes |-> q]

\* (value * Math.PI) / 180
degToRad(value) == Radians(RDiv(value, Num(180)))

\* The degrees of an angle in radians.
RadToDeg(rad) == RMul(rad.piTimes, Num(180))

\* The doubles 180 and Math.PI / 18, which are DoubleOf(Num(180)) and
\* DoubleOver(MathPi, DoubleOf(Num(18))).
Double180 == [s |-> 1, m |-> <<0, 0, 0, 180>>, e |-> -45]
PiOver18 == [s |-> 1, m |-> <<17543, 5582, 23649, 178>>, e |-> -55]

\* (value * Math.PI) / 180 as the double it is, for the result rad of degToRad.
DoubleOfRadians(rad) ==
    DoubleOver(DoubleTimes(DoubleOf(RadToDeg(rad)), MathPi), Double180)

\* a % m of JavaScript for m > 0: the remainder has the sign of a.
Remainder(a, m) == RSub(a, RMul(m, Num(Trunc(RDiv(a, m)))))

normalizeDegreesNoLift(value) == Remainder(value, Num(360))

\* if (normalized < 0) normalized += 360
LiftNegative(normalized) ==
    IF RLt(normalized, Num(0)) THEN RAdd(normalized, Num(360)) ELSE normalized

normalizeDegrees(value) == LiftNegative(Remainder(value, Num(360)))

\* delta === 0 ? 360 : delta
FullTurnIfZero(delta) == IF delta = Num(0) THEN Num(360) ELSE delta

\* computeCounterClockwiseSweep from its constants start and end.
SweepBetween(start, end) ==
    degToRad(FullTurnIfZero(Remainder(RAdd(RSub(end, start), Num(360)), Num(360))))

computeCounterClockwiseSweep(startDeg, endDeg) ==
    SweepBetween(normalizeDegrees(startDeg), normalizeDegrees(endDeg))

MaxSteps == 6

\* Angles in degrees: steps of 30 around several turns, the angles of the
\* examples, and fractions.
Angles ==
    {Num(30 * k) : k \in -MaxSteps..MaxSteps}
        \cup {Num(350), Num(10), Num(720), Num(-725), Rat(-1, 2), Rat(721, 2), Rat(45, 4)}

\* computeCounterClockwiseSweep is called for a start and an end angle.
ComputeSweep ==
    /\ phase = "view"
    /\ xf.stage = "none"
    /\ \E startDeg \in Angles : \E endDeg \in Angles :
           xf' = [stage |-> "swept", startDeg |-> startDeg, endDeg |-> endDeg,
                  sweep |-> computeCounterClockwiseSweep(startDeg, endDeg)]
    /\ ParserUnchanged

\* The floor of a finite number.
FloorOf(v) == v.n \div v.d

\* v mod 360: the number in [0, 360) that differs from v by a multiple of 360.
Mod360(v) == RSub(v, Num(360 * FloorOf(RDiv(v, Num(360)))))

RefSweep(startDeg, endDeg) ==
    IF Mod360(RAdd(RSub(Mod360(endDeg), Mod360(startDeg)), Num(360))) = Num(0)
    THEN Num(360)
    ELSE Mod360(RAdd(RSub(Mod360(endDeg), Mod360(startDeg)), Num(360)))

\* C13: the counter-clockwise sweep of any finite start and end angle is
\* ((end mod 360) - (start mod 360) + 360) mod 360 on the angles normalized
\* into [0, 360), with 360 in place of 0: it is above 0 and at most 360, is
\* 20 from 350 to 10, and a full 360 for equal angles.
C13_SweepIsCounterClockwise ==
    xf.stage = "swept" =>
        /\ RadToDeg(xf.sweep) = RefSweep(xf.startDeg, xf.endDeg)
        /\ RLt(Num(0), RadToDeg(xf.sweep)) /\ RLe(RadToDeg(xf.sweep), Num(360))
        /\ (xf.startDeg = Num(350) /\ xf.endDeg = Num(10)) => RadToDeg(xf.sweep) = Num(20)
        /\ xf.startDeg = xf.endDeg => RadToDeg(xf.sweep) = Num(360)

\* The sweep from a negative angle to one of more than a turn.
C13_Witness ==
    /\ xf.stage = "swept"
    /\ RLt(xf.startDeg, Num(0))
    /\ RLt(Num(360), xf.endDeg)
    /\ RadToDeg(xf.sweep) # Num(360)

----------------------------------------------------------------------------
(* The tessellation of an arc: drawArc                                     *)

\* Math.max(12, Math.ceil(sweepRad / (Math.PI / 18)))
AtLeast(floor, count) == IF count < floor THEN floor ELSE count
SegmentsOfAny(sweepRad) ==
    DoubleCeil(DoubleOver(DoubleOfRadians(sweepRad), PiOver18))
SegmentsOf(sweepRad) == AtLeast(12, SegmentsOfAny(sweepRad))

\* startRad + (sweepRad * i) / segments, as a multiple of pi
AngleAt(startRad, sweepRad, k, segments) ==
    RAdd(startRad.piTimes, RDiv(RMul(sweepRad.piTimes, Num(k)), Num(segments)))

\* Math.cos and Math.sin of a multiple q of pi are kept as they are, but for
\* the whole quarter turns, where they are 1, 0 or -1.
QuarterTurns(q) == (RMul(q, Num(2)).n) % 4
IsQuarterTurn(q) == RMul(q, Num(2)).d = 1
CosOf(q) ==
    IF IsQuarterTurn(q)
    THEN Num(CASE QuarterTurns(q) = 0 -> 1 [] QuarterTurns(q) = 2 -> -1 [] OTHER -> 0)
    ELSE [cos |-> q]
SinOf(q) ==
    IF IsQuarterTurn(q)
    THEN Num(CASE QuarterTurns(q) = 1 -> 1 [] QuarterTurns(q) = 3 -> -1 [] OTHER -> 0)
    ELSE [sin |-> q]

\* center + radius * (ratio of the angle): a number where the ratio is one.
Along(from, radius, ratio) ==
    IF IsNumber(ratio) THEN RAdd(from, RMul(radius, ratio))
    ELSE [from |-> from, radius |-> radius, ratio |-> ratio]

\* The point of an arc at an angle that is the multiple q of pi.
PointAt(entity, q) ==
    [angle |-> q,
     x |-> Along(entity.center.x, entity.radius, CosOf(q)),
     y |-> Along(entity.center.y, entity.radius, SinOf(q))]

\* The points drawArc passes to moveTo (the first) and lineTo (the others).
ArcPoints(entity, startRad, sweepRad, segments) ==
    [k \in 1..(segments + 1) |->
        PointAt(entity, AngleAt(startRad, sweepRad, k - 1, segments))]

\* drawArc from its constants startRad, sweepRad and segments.
ArcPath(entity, startRad, sweepRad, segments) ==
    [sweepRad |-> sweepRad, segments |-> segments,
     points |-> ArcPoints(entity, startRad, sweepRad, segments)]
ArcOfSweep(entity, sweepRad) ==
    ArcPath(entity, degToRad(entity.startAngleDeg), sweepRad, SegmentsOf(sweepRad))

drawArc(entity) ==
    ArcOfSweep(entity, computeCounterClockwiseSweep(entity.startAngleDeg, entity.endAngleDeg))

Arc(center, radius, startAngleDeg, endAngleDeg) ==
    [type |-> "ARC", center |-> center, radius |-> radius,
     startAngleDeg |-> startAngleDeg, endAngleDeg |-> endAngleDeg]

\* The arcs drawn: two circles, and the start and end angles in steps of 30
\* degrees with the angles of the examples and fractions.
ArcAngles ==
    {Num(30 * k) : k \in 0..MaxSteps} \cup {Num(350), Num(10), Num(-90), Rat(45, 4), Rat(721, 2)}
ArcCircles == {<<Point(0, 0), Num(1)>>, <<Point(1, -2), Rat(5, 2)>>}
Arcs ==
    {Arc(c[1], c[2], s, e) : c \in ArcCircles, s \in ArcAngles, e \in ArcAngles}

\* drawArc is called for an arc.
DrawArc ==
    /\ phase = "view"
    /\ xf.stage = "none"
    /\ \E entity \in Arcs :
           xf' = [stage |-> "arc", entity |-> entity, drawn |-> drawArc(entity)]
    /\ ParserUnchanged

NextArc == ComputeSweep \/ DrawArc

SpecArc == InitXform /\ [][NextArc]_vars

\* The ceiling of a finite number.
CeilOf(v) == -FloorOf(RNeg(v))

\* max(12, ceil(sweepDegrees / 10))
RefSegments(sweepDeg) == AtLeast(12, CeilOf(RDiv(sweepDeg, Num(10))))

\* The angle in degrees of a point of the tessellation.
DegreesOf(point) == RMul(point.angle, Num(180))

PointsAreSpread(entity, sweepDeg, drawn) ==
    /\ Len(drawn.points) = drawn.segments + 1
    /\ \A k \in 0..drawn.segments :
           DegreesOf(drawn.points[k + 1])
               = RAdd(entity.startAngleDeg,
                      RDiv(RMul(sweepDeg, Num(k)), Num(drawn.segments)))
    /\ DegreesOf(drawn.points[1]) = entity.startAngleDeg
    /\ Mod360(DegreesOf(drawn.points[drawn.segments + 1])) = Mod360(entity.endAngleDeg)
    /\ (entity.startAngleDeg = Num(0) /\ entity.endAngleDeg = Num(90)) =>
           /\ drawn.points[1].x = RAdd(entity.center.x, entity.radius)
           /\ drawn.points[1].y = entity.center.y
           /\ drawn.points[drawn.segments + 1].x = entity.center.x
           /\ drawn.points[drawn.segments + 1].y = RAdd(entity.center.y, entity.radius)

----------------------------------------------------------------------------
(* The nearest vertex: findNearestVertex                                   *)

\* Math.round: the nearest integer, halves upwards.
MathRound(v) == Num(FloorOf(RAdd(v, Rat(1, 2))))

\* Math.max(10, Math.round(canvas.clientWidth))
CanvasSize(clientSize) == RMax(Num(10), MathRound(clientSize))

DEFAULT_VIEWPORT == [zoom |-> Num(1), panX |-> Num(0), panY |-> Num(0)]

\* options.viewport ?? DEFAULT_VIEWPORT
ViewportOf(options) == IF options.viewport = Null THEN DEFAULT_VIEWPORT ELSE options.viewport

\* createTransformForCanvas from its constant bounds.
TransformForBounds(bounds, width, height, options) ==
    IF bounds = Null THEN Null
    ELSE createTransform(bounds, width, height, options.padding, ViewportOf(options))

createTransformForCanvas(document, width, height, options) ==
    TransformForBounds(computeBounds(document.entities), width, height, options)

getArcPoint(entity, angleDeg) ==
    [x |-> Along(entity.center.x, entity.radius, CosOf(degToRad(angleDeg).piTimes)),
     y |-> Along(entity.center.y, entity.radius, SinOf(degToRad(angleDeg).piTimes))]

\* What collectVertices pushes for one entity.
VerticesOf(entity) ==
    CASE entity.type = "LINE" -> <<entity.start, entity.end>>
      [] entity.type = "POLYLINE" -> entity.points
      [] entity.type = "ARC" -> <<getArcPoint(entity, entity.startAngleDeg),
                                  getArcPoint(entity, entity.endAngleDeg)>>
      [] OTHER -> <<>>

RECURSIVE collectVertices(_)
collectVertices(list) ==
    IF list = <<>> THEN <<>>
    ELSE VerticesOf(Head(list)) \o collectVertices(Tail(list))

\* dx * dx + dy * dy for the projected vertex.
DistanceSquared(projected, screenX, screenY) ==
    RAdd(RMul(RSub(projected.x, screenX), RSub(projected.x, screenX)),
         RMul(RSub(projected.y, screenY), RSub(projected.y, screenY)))

\* The best vertex so far: bestDistanceSquared and bestPoint, with the place
\* of bestPoint in the vertices (0 while bestPoint is null).
Best(distanceSquared, point, index) ==
    [bestDistanceSquared |-> distanceSquared, bestPoint |-> point, index |-> index]

\* if (distanceSquared < bestDistanceSquared)
KeepNearer(best, distanceSquared, vertex, k) ==
    IF RLt(distanceSquared, best.bestDistanceSquared) THEN Best(distanceSquared, vertex, k)
    ELSE best

\* if (distanceSquared <= bestDistanceSquared)
KeepNearest(best, distanceSquared, vertex, k) ==
    IF RLe(distanceSquared, best.bestDistanceSquared) THEN Best(distanceSquared, vertex, k)
    ELSE best

\* The for loop of findNearestVertex from the vertex at place k on.
RECURSIVE NearestFrom(_, _, _, _, _, _)
NearestFrom(vertices, k, transform, screenX, screenY, best) ==
    IF k > Len(vertices) THEN best
    ELSE NearestFrom(vertices, k + 1, transform, screenX, screenY,
                     KeepNearest(best,
                                 DistanceSquared(toScreen(vertices[k], transform),
                                                 screenX, screenY),
                                 vertices[k], k))

\* Math.max(maxDistancePx, 0) ** 2
MaxDistanceSquared(maxDistancePx) ==
    RMul(RMax(maxDistancePx, Num(0)), RMax(maxDistancePx, Num(0)))

\* findNearestVertex from its constant transform.
NearestWith(transform, document, screenX, screenY, maxDistancePx) ==
    IF transform = Null THEN Best(MaxDistanceSquared(maxDistancePx), Null, 0)
    ELSE NearestFrom(collectVertices(document.entities), 1, transform, screenX, screenY,
                     Best(MaxDistanceSquared(maxDistancePx), Null, 0))

\* The result is bestPoint; index tells which of equal points it is.
findNearestVertex(canvas, document, options, screenX, screenY, maxDistancePx) ==
    NearestWith(createTransformForCanvas(document, CanvasSize(canvas.clientWidth),
                                         CanvasSize(canvas.clientHeight), options),
                document, screenX, screenY, maxDistancePx)

\* Entities with vertices in common: two lines that meet, a line of no
\* length, a polyline, a circle, and an arc of a quarter turn.
VertexEntities ==
    { [type |-> "LINE", start |-> Point(0, 0), end |-> Point(10, 5)],
      [type |-> "LINE", start |-> Point(10, 5), end |-> Point(4, 1)],
      [type |-> "LINE", start |-> Point(3, 3), end |-> Point(3, 3)],
      [type |-> "POLYLINE", points |-> <<Point(0, 0), Point(6, 0), Point(6, 8)>>,
       closed |-> TRUE],
      [type |-> "CIRCLE", center |-> Point(4, 1), radius |-> Num(2)],
      Arc(Point(4, 1), Num(3), Num(0), Num(90)) }

RECURSIVE DocumentsOf(_, _)
DocumentsOf(items, maxLen) ==
    IF maxLen = 0 THEN {<<>>}
    ELSE DocumentsOf(items, maxLen - 1)
             \cup {Append(d, e) : d \in DocumentsOf(items, maxLen - 1), e \in items}

VertexDocuments == {[entities |-> d] : d \in DocumentsOf(VertexEntities, MaxEntities)}

\* Canvases by their client size (the second is below the least size of 10),
\* and the options of a view.
Views ==
    {[canvas |-> [clientWidth |-> Num(100), clientHeight |-> Num(80)],
      options |-> [padding |-> Num(4), viewport |-> Null]],
     [canvas |-> [clientWidth |-> Rat(15, 2), clientHeight |-> Num(40)],
      options |-> [padding |-> Num(0),
                   viewport |-> [zoom |-> Num(2), panX |-> Rat(5, 2), panY |-> Num(-4)]]]}

\* The places asked about, as document points (shown at their places on the
\* screen): vertices, the middle between two vertices, the center of the
\* circle, a place far off.
QueryPoints ==
    {Point(0, 0), Point(10, 5), Point(3, 3), Point(5, 4), Point(4, 1), Point(7, 1),
     Point(40, -30)}
MaxDistances == {Num(-5), Num(0), Num(12), Num(1000)}

AnyTransform(canvas, options) ==
    createTransform(Bounds(0, 0, 10, 8), CanvasSize(canvas.clientWidth),
                    CanvasSize(canvas.clientHeight), options.padding, ViewportOf(options))

\* The place on the screen of a document point; without a transform (no
\* entities) any place serves.
ScreenOf(point, canvas, document, options) ==
    IF document.entities = <<>> THEN toScreen(point, AnyTransform(canvas, options))
    ELSE toScreen(point, createTransformForCanvas(document, CanvasSize(canvas.clientWidth),
                                                  CanvasSize(canvas.clientHeight), options))

\* The places on the screen of the vertices: projected of findNearestVertex.
Projected(vertices, transform) ==
    [k \in 1..Len(vertices) |-> toScreen(vertices[k], transform)]

Asked(canvas, document, options, screen, maxDistancePx) ==
    [stage |-> "nearest", document |-> document, screen |-> screen,
     maxDistancePx |-> maxDistancePx,
     projected |-> Projected(collectVertices(document.entities),
                             createTransformForCanvas(document,
                                                      CanvasSize(canvas.clientWidth),
                                                      CanvasSize(canvas.clientHeight),
                                                      options)),
     found |-> findNearestVertex(canvas, document, options, screen.x, screen.y,
                                 maxDistancePx)]

\* A drawing of no width or no height is shown at a scale of many millions:
\* it is asked about at its own vertices only, where the products stay small.
HasExtent(bounds) ==
    bounds # Null => RLt(bounds.minX, bounds.maxX) /\ RLt(bounds.minY, bounds.maxY)
Askable(document, point) ==
    \/ HasExtent(computeBounds(document.entities))
    \/ \A k \in 1..Len(document.entities) :
           /\ document.entities[k].type = "LINE"
           /\ document.entities[k].start = point
           /\ document.entities[k].end = point

\* findNearestVertex is called.
FindNearestVertex ==
    /\ phase = "view"
    /\ xf.stage = "none"
    /\ \E view \in Views : \E document \in VertexDocuments :
       \E point \in QueryPoints : \E maxDistancePx \in MaxDistances :
           /\ Askable(document, point)
           /\ xf' = Asked(view.canvas, document, view.options,
                          ScreenOf(point, view.canvas, document, view.options),
                          maxDistancePx)
    /\ ParserUnchanged

NextNearest == FindNearestVertex

SpecNearest == InitXform /\ [][NextNearest]_vars

\* The candidate vertices as the claim lists them.
RefCandidates(list) ==
    UNION {CASE list[k].type = "LINE" -> {list[k].start, list[k].end}
             [] list[k].type = "POLYLINE" ->
                    {list[k].points[j] : j \in 1..Len(list[k].points)}
             [] list[k].type = "ARC" ->
                    {[x |-> RAdd(list[k].center.x,
                                 RMul(list[k].radius, CosOf(RDiv(a, Num(180))))),
                      y |-> RAdd(list[k].center.y,
                                 RMul(list[k].radius, SinOf(RDiv(a, Num(180)))))] :
                        a \in {list[k].startAngleDeg, list[k].endAngleDeg}}
             [] OTHER -> {} : k \in 1..Len(list)}

\* The square of the distance on the screen of the vertex at place k.
ScreenDistance(q, k) ==
    RAdd(RMul(RSub(q.projected[k].x, q.screen.x), RSub(q.projected[k].x, q.screen.x)),
         RMul(RSub(q.projected[k].y, q.screen.y), RSub(q.projected[k].y, q.screen.y)))

\* The places of the vertices within the greatest distance (0 for a negative one).
Within(q) ==
    {k \in 1..Len(q.projected) :
        RLe(ScreenDistance(q, k),
            RMul(RMax(q.maxDistancePx, Num(0)), RMax(q.maxDistancePx, Num(0))))}

NearestIsLastOfLeast(q, vertices, within) ==
    /\ {vertices[k] : k \in 1..Len(vertices)} = RefCandidates(q.document.entities)
    /\ within = {} <=> q.found.bestPoint = Null
    /\ within # {} =>
           /\ q.found.index \in within
           /\ q.found.bestPoint = vertices[q.found.index]
           /\ \A k \in within :
                  /\ RLe(ScreenDistance(q, q.found.index), ScreenDistance(q, k))
                  /\ ScreenDistance(q, k) = ScreenDistance(q, q.found.index)
                         => k <= q.found.index

\* C15: findNearestVertex returns none when no candidate vertex (the
\* endpoints of lines, the points of polylines, the two endpoints of arcs,
\* nothing of circles) is within maxDistancePixels of the screen point, and
\* otherwise a candidate of the least screen distance, the last enumerated of
\* those at that distance; a negative maxDistancePixels counts as 0.
C15_NearestVertexIsLastOfLeast ==
    xf.stage = "nearest" =>
        NearestIsLastOfLeast(xf, collectVertices(xf.document.entities), Within(xf))

\* Two vertices of different entities at the same least distance from the
\* place asked about, which is no vertex: the later one is returned.
C15_Witness ==
    /\ xf.stage = "nearest"
    /\ xf.found.bestPoint # Null
    /\ xf.found.bestDistanceSquared # Num(0)
    /\ \E k \in 1..(xf.found.index - 1) :
           /\ collectVertices(xf.document.entities)[k] # xf.found.bestPoint
           /\ ScreenDistance(xf, k) = xf.found.bestDistanceSquared

----------------------------------------------------------------------------
(* The grid: drawGrid                                                      *)

\* The corners of the canvas as document points, and the box around them.
Corners(transform) ==
    <<screenToWorld([x |-> Num(0), y |-> Num(0)], transform),
      screenToWorld([x |-> transform.canvasWidth, y |-> Num(0)], transform),
      screenToWorld([x |-> Num(0), y |-> transform.canvasHeight], transform),
      screenToWorld([x |-> transform.canvasWidth, y |-> transform.canvasHeight], transform)>>

RECURSIVE BoxAround(_, _, _)
BoxAround(corners, k, box) ==
    IF k > Len(corners) THEN box
    ELSE BoxAround(corners, k + 1,
                   [minX |-> MathMin(box.minX, corners[k].x),
                    minY |-> MathMin(box.minY, corners[k].y),
                    maxX |-> MathMax(box.maxX, corners[k].x),
                    maxY |-> MathMax(box.maxY, corners[k].y)])

computeVisibleWorldBounds(transform) ==
    BoxAround(Corners(transform), 1,
              [minX |-> PosInf, minY |-> PosInf, maxX |-> NegInf, maxY |-> NegInf])

\* while (span / step > maxLines) step *= 2
RECURSIVE DoubleUntil(_, _, _)
DoubleUntil(step, span, maxLines) ==
    IF RLt(maxLines, RDiv(span, step)) THEN DoubleUntil(RMul(step, Num(2)), span, maxLines)
    ELSE step

normalizeGridStep(baseStep, span, maxLines) ==
    DoubleUntil(RMax(baseStep, Epsilon), span, maxLines)

\* The third argument of normalizeGridStep in drawGrid, and the most lines the
\* loops of drawGrid draw along an axis.
GridMaxLines == 500
GridLoopCap == 5000

\* The lines along one axis: the indices from Math.floor(min / step) to
\* Math.ceil(max / step), the loop cap of them at most.
AxisLines(min, max, step) ==
    [step |-> step,
     startIndex |-> FloorOf(RDiv(min, step)),
     endIndex |-> -FloorOf(RNeg(RDiv(max, step))),
     drawn |-> IF -FloorOf(RNeg(RDiv(max, step))) - FloorOf(RDiv(min, step)) + 1 > GridLoopCap
               THEN GridLoopCap
               ELSE -FloorOf(RNeg(RDiv(max, step))) - FloorOf(RDiv(min, step)) + 1]

\* drawGrid from its constants visible, spanX and spanY.
GridOf(visible, spanX, spanY, baseGridSize, lineColor) ==
    [visible |-> visible, spanX |-> spanX, spanY |-> spanY, lineColor |-> lineColor,
     x |-> AxisLines(visible.minX, visible.maxX,
                     normalizeGridStep(baseGridSize, spanX, Num(GridMaxLines))),
     y |-> AxisLines(visible.minY, visible.maxY,
                     normalizeGridStep(baseGridSize, spanY, Num(GridMaxLines))),
     axisX |-> RLe(visible.minX, Num(0)) /\ RLe(Num(0), visible.maxX),
     axisY |-> RLe(visible.minY, Num(0)) /\ RLe(Num(0), visible.maxY)]

GridWithin(visible, baseGridSize, lineColor) ==
    GridOf(visible, RMax(RSub(visible.maxX, visible.minX), Epsilon),
           RMax(RSub(visible.maxY, visible.minY), Epsilon), baseGridSize, lineColor)

drawGrid(transform, baseGridSize, lineColor) ==
    GridWithin(computeVisibleWorldBounds(transform), baseGridSize, lineColor)

\* Drawings on canvases that show, at the least zoom, 10000 and 20000 units
\* along the axes, and at the greatest zoom less than a unit.
GridScenes ==
    { Scene(Bounds(0, 0, 200, 100), 100, 100, 0),
      Scene(Bounds(-3, -2, 1, 6), 300, 150, 5),
      Scene(Bounds(0, 0, 10, 5), 800, 600, 20),
      Scene(Bounds(-40, -40, 40, 40), 64, 48, 0) }
GridZooms == {MinZoom, Num(1), Num(7), MaxZoom}
GridPans == {Num(0), Num(-40)}

\* Base steps; the one below 1e-6 is taken at the greatest zoom only, where
\* the count of lines stays within the integers of the model.
GridSizes == {Num(1), Rat(1, 4), Num(3), Num(10), Rat(1, 10000000)}

\* drawGrid is called.
DrawGrid ==
    /\ phase = "view"
    /\ xf.stage = "none"
    /\ \E scene \in GridScenes : \E zoom \in GridZooms : \E pan \in GridPans :
       \E baseGridSize \in GridSizes :
           /\ RLt(baseGridSize, Epsilon) => zoom = MaxZoom
           /\ xf' = [stage |-> "grid", baseGridSize |-> baseGridSize,
                     grid |-> drawGrid(createTransform(scene.bounds, scene.width,
                                                       scene.height, scene.padding,
                                                       [zoom |-> zoom, panX |-> pan,
                                                        panY |-> Num(0)]),
                                       baseGridSize, "#d0d0d0")]
    /\ ParserUnchanged

NextGrid == DrawGrid

SpecGrid == InitXform /\ [][NextGrid]_vars

\* base * 2^k
Doubled(base, k) == RMul(base, Num(Pow2(k)))

\* The doublings looked through for the step of a grid.
MaxDoublings == 20

\* Whether step is base * 2^k for the least k >= 0 with span / step <= cap.
IsLeastDoubling(step, base, span, cap) ==
    \E k \in 0..MaxDoublings :
        /\ step = Doubled(base, k)
        /\ RLe(RDiv(span, step), Num(cap))
        /\ k > 0 => RLt(Num(cap), RDiv(span, Doubled(base, k - 1)))

\* C16 as stated: for every positive base step and span along an axis, the
\* step of the grid is base * 2^k for the least k >= 0 for which span / step
\* is at most 5000.
C16_StepKeepsLinesWithin5000 ==
    xf.stage = "grid" =>
        /\ IsLeastDoubling(xf.grid.x.step, xf.baseGridSize, xf.grid.spanX, 5000)
        /\ IsLeastDoubling(xf.grid.y.step, xf.baseGridSize, xf.grid.spanY, 5000)

\* What the source does instead: the least doubling of the base step, 1e-6
\* at the least, for which span / step is at most 500.
GridStepKeepsLinesWithin500 ==
    xf.stage = "grid" =>
        /\ IsLeastDoubling(xf.grid.x.step, RMax(xf.baseGridSize, Epsilon), xf.grid.spanX, 500)
        /\ IsLeastDoubling(xf.grid.y.step, RMax(xf.baseGridSize, Epsilon), xf.grid.spanY, 500)

\* The grid of base step 1 over a span of 10000: its step is 32.
GridOf10000 ==
    /\ xf.stage = "grid"
    /\ xf.baseGridSize = Num(1)
    /\ xf.grid.spanX = Num(10000)
    /\ xf.grid.x.step = Num(32)

----------------------------------------------------------------------------
(* The renderer: renderDxf                                                 *)

\* The canvas keeps the size of its bitmap, the state of its 2d context and
\* what was painted on it since it was last blank, in the order of painting.
\* A paint records the context state it was made with.
DefaultContext ==
    [scale |-> Num(1), fillStyle |-> "#000000", strokeStyle |-> "#000000",
     lineWidth |-> Num(1), lineDash |-> <<>>, lineJoin |-> "miter", lineCap |-> "butt"]

BlankCanvas == [width |-> Num(300), height |-> Num(150), context |-> DefaultContext,
                surface |-> <<>>]

\* canvas.width = w; canvas.height = h: an assignment to either makes the
\* bitmap blank and the context as new, whatever the value.
SetSize(state, w, h) ==
    [width |-> w, height |-> h, context |-> DefaultContext, surface |-> <<>>]

\* context.clearRect(0, 0, width, height): a rectangle over the whole bitmap
\* leaves nothing of what was painted.
ClearRect(state, width, height) ==
    IF /\ RLe(state.width, RMul(width, state.context.scale))
       /\ RLe(state.height, RMul(height, state.context.scale))
    THEN [state EXCEPT !.surface = <<>>]
    ELSE [state EXCEPT !.surface =
              Append(@, [op |-> "clearRect", width |-> width, height |-> height,
                         context |-> state.context])]

Painted(state, paints) == [state EXCEPT !.surface = @ \o paints]

With(state, context) == [state EXCEPT !.context = context]

\* withAlpha(hexColor, alpha): the color with the alpha.
withAlpha(hexColor, alpha) == [color |-> hexColor, alpha |-> alpha]

MEASUREMENT_COLOR == "#ffd166"
MEASUREMENT_HOVER_COLOR == "#7bdff2"

\* The place on the screen of a document point; a point of an arc between the
\* quarter turns, whose coordinates are kept as cos and sin, is kept with the
\* transform it is shown by.
Shown(point, transform) ==
    IF IsNumber(point.x) /\ IsNumber(point.y) THEN toScreen(point, transform)
    ELSE [point |-> point, transform |-> transform]

Stroke(path, closed, context) ==
    [op |-> "stroke", path |-> path, closed |-> closed, context |-> context]

\* arc(x, y, radius, 0, Math.PI * 2) filled or stroked
Disc(op, center, radius, context) ==
    [op |-> op, center |-> center, radius |-> radius, context |-> context]

\* The paints of drawGrid: the lines of the grid, then the axes; the context
\* is afterwards as before (save, restore).
GridPaints(grid, context) ==
    (IF grid.x.drawn + grid.y.drawn > 0
     THEN <<[op |-> "gridLines", x |-> grid.x, y |-> grid.y, visible |-> grid.visible,
             context |-> [context EXCEPT !.lineWidth = Num(1),
                                         !.strokeStyle = withAlpha(grid.lineColor, 16)]]>>
     ELSE <<>>)
    \o (IF grid.axisX \/ grid.axisY
        THEN <<[op |-> "gridAxes", axisX |-> grid.axisX, axisY |-> grid.axisY,
                visible |-> grid.visible,
                context |-> [context EXCEPT !.lineWidth = Num(1),
                                            !.strokeStyle = withAlpha(grid.lineColor, 34)]]>>
        ELSE <<>>)

drawLine(entity, transform, context) ==
    <<Stroke(<<toScreen(entity.start, transform), toScreen(entity.end, transform)>>,
             FALSE, context)>>

drawPolyline(entity, transform, context) ==
    IF Len(entity.points) < 2 THEN <<>>
    ELSE <<Stroke([k \in 1..Len(entity.points) |-> toScreen(entity.points[k], transform)],
                  entity.closed, context)>>

drawCircle(entity, transform, context) ==
    <<Disc("strokeArc", toScreen(entity.center, transform),
           RMul(RMul(entity.radius, transform.baseScale), transform.zoom), context)>>

\* The path of drawArc on the screen.
ArcStroke(points, transform, context) ==
    <<Stroke([k \in 1..Len(points) |-> Shown(points[k], transform)], FALSE, context)>>

\* The switch of renderDxf on entity.type.
DrawEntity(entity, transform, context) ==
    CASE entity.type = "LINE" -> drawLine(entity, transform, context)
      [] entity.type = "POLYLINE" -> drawPolyline(entity, transform, context)
      [] entity.type = "CIRCLE" -> drawCircle(entity, transform, context)
      [] entity.type = "ARC" -> ArcStroke(drawArc(entity).points, transform, context)
      [] OTHER -> <<>>

RECURSIVE DrawEntities(_, _, _)
DrawEntities(ents, transform, context) ==
    IF ents = <<>> THEN <<>>
    ELSE DrawEntity(Head(ents), transform, context)
             \o DrawEntities(Tail(ents), transform, context)

\* measurement.start ? toScreen(measurement.start, transform) : null
ShownOrNull(point, transform) == IF point = Null THEN Null ELSE toScreen(point, transform)

\* drawMeasurement from its constants start, end and hover; context is the
\* one with the measurement's color, line width and dashes.
MeasurementPaints(start, end, hover, context) ==
    (IF start # Null /\ end # Null THEN <<Stroke(<<start, end>>, FALSE, context)>> ELSE <<>>)
    \o (IF start # Null
        THEN <<Disc("fillArc", start, Num(4), [context EXCEPT !.lineDash = <<>>])>>
        ELSE <<>>)
    \o (IF end # Null
        THEN <<Disc("fillArc", end, Num(4), [context EXCEPT !.lineDash = <<>>])>>
        ELSE <<>>)
    \o (IF hover # Null
        THEN <<Disc("fillArc", hover, Num(7),
                    [context EXCEPT !.lineDash = <<>>,
                                    !.strokeStyle = MEASUREMENT_HOVER_COLOR,
                                    !.fillStyle = withAlpha(MEASUREMENT_HOVER_COLOR, 20)]),
               Disc("strokeArc", hover, Num(7),
                    [context EXCEPT !.lineDash = <<>>,
                                    !.strokeStyle = MEASUREMENT_HOVER_COLOR,
                                    !.fillStyle = withAlpha(MEASUREMENT_HOVER_COLOR, 20)])>>
        ELSE <<>>)

drawMeasurement(transform, measurement, context) ==
    MeasurementPaints(ShownOrNull(measurement.start, transform),
                      ShownOrNull(measurement.end, transform),
                      ShownOrNull(measurement.hover, transform),
                      [context EXCEPT !.strokeStyle = MEASUREMENT_COLOR,
                                      !.fillStyle = MEASUREMENT_COLOR,
                                      !.lineWidth = Rat(3, 2),
                                      !.lineDash = <<6, 4>>])

\* renderDxf from line 100: the measurement, with the context as it was.
WithMeasurement(state, transform, options) ==
    IF /\ options.measurement # Null
       /\ (options.measurement.start # Null \/ options.measurement.end # Null)
    THEN Painted(state, drawMeasurement(transform, options.measurement, state.context))
    ELSE state

\* renderDxf from line 76: the entities with the line style set.
WithEntities(state, document, transform, options) ==
    WithMeasurement(Painted(state, DrawEntities(document.entities, transform, state.context)),
                    transform, options)

EntityContext(context, options) ==
    [context EXCEPT !.strokeStyle = options.lineColor, !.lineWidth = Num(1),
                    !.lineJoin = "round", !.lineCap = "round"]

\* renderDxf from line 72: the grid.
WithGrid(state, transform, options) ==
    IF options.showGridlines /\ RLt(Num(0), options.gridSizeMm)
    THEN Painted(state, GridPaints(drawGrid(transform, options.gridSizeMm, options.lineColor),
                                   state.context))
    ELSE state

\* renderDxf from line 67 with its constant transform.
RenderWith(state, transform, document, options) ==
    IF transform = Null THEN state
    ELSE WithEntities(With(WithGrid(state, transform, options),
                           EntityContext(state.context, options)),
                      document, transform, options)

\* context.fillStyle = options.backgroundColor; context.fillRect(0, 0, width, height)
FillRect(state, width, height) ==
    Painted(state, <<[op |-> "fillRect", width |-> width, height |-> height,
                      context |-> state.context]>>)

\* renderDxf from line 62: the context is there.
RenderOn(state, width, height, ratio, document, options) ==
    RenderWith(FillRect(With(ClearRect(With(state, [state.context EXCEPT !.scale = ratio]),
                                       width, height),
                             [state.context EXCEPT !.scale = ratio,
                                                   !.fillStyle = options.backgroundColor]),
                        width, height),
               createTransformForCanvas(document, width, height, options),
               document, options)

\* window.devicePixelRatio || 1
RatioOf(devicePixelRatio) == IF devicePixelRatio = Num(0) THEN Num(1) ELSE devicePixelRatio

\* renderDxf without the assignment of the canvas's size.
RenderUnsized(state, width, height, ratio, document, options) ==
    RenderOn(state, width, height, ratio, document, options)

\* renderDxf from its constants width, height and ratio.
RenderSized(state, width, height, ratio, document, options) ==
    RenderOn(SetSize(state, MathRound(RMul(width, ratio)), MathRound(RMul(height, ratio))),
             width, height, ratio, document, options)

\* renderDxf: state is the canvas before the call, canvas its size on the page
\* and the pixel ratio of the window; the result is the canvas after the call.
renderDxf(state, canvas, document, options) ==
    RenderSized(state, CanvasSize(canvas.clientWidth), CanvasSize(canvas.clientHeight),
                RatioOf(canvas.devicePixelRatio), document, options)

\* The documents drawn: none, a line of no length (bounds of no span), a
\* line, and a drawing of the other three entity types.
RenderDocuments ==
    { [entities |-> <<>>],
      [entities |-> <<[type |-> "LINE", start |-> Point(3, 3), end |-> Point(3, 3)]>>],
      [entities |-> <<[type |-> "LINE", start |-> Point(0, 0), end |-> Point(10, 5)]>>],
      [entities |-> <<[type |-> "POLYLINE",
                       points |-> <<Point(0, 0), Point(6, 0), Point(6, 8)>>,
                       closed |-> TRUE],
                      [type |-> "CIRCLE", center |-> Point(4, 1), radius |-> Num(2)],
                      Arc(Point(4, 1), Num(3), Num(0), Num(90))>>] }

Measurements ==
    { Null,
      [start |-> Null, end |-> Null, hover |-> Point(3, 3)],
      [start |-> Point(3, 3), end |-> Null, hover |-> Null],
      [start |-> Point(0, 0), end |-> Point(3, 3), hover |-> Point(3, 3)] }

Grids == {[showGridlines |-> FALSE, gridSizeMm |-> Num(10)],
          [showGridlines |-> TRUE, gridSizeMm |-> Num(0)],
          [showGridlines |-> TRUE, gridSizeMm |-> Num(10)]}

RenderViews ==
    {[canvas |-> [clientWidth |-> Num(100), clientHeight |-> Num(100),
                  devicePixelRatio |-> Num(1)],
      padding |-> Num(0), viewport |-> Null, backgroundColor |-> "#202020"],
     [canvas |-> [clientWidth |-> Rat(21, 2), clientHeight |-> Num(40),
                  devicePixelRatio |-> Rat(3, 2)],
      padding |-> Num(2), viewport |-> [zoom |-> Num(2), panX |-> Num(5), panY |-> Num(-4)],
      backgroundColor |-> "#ffffff"],
     [canvas |-> [clientWidth |-> Num(100), clientHeight |-> Num(100),
                  devicePixelRatio |-> Num(0)],
      padding |-> Num(0), viewport |-> Null, backgroundColor |-> "#ffffff"]}

OptionsOf(view, grid, measurement) ==
    [backgroundColor |-> view.backgroundColor, lineColor |-> "#d0d0d0",
     showGridlines |-> grid.showGridlines, gridSizeMm |-> grid.gridSizeMm,
     padding |-> view.padding, viewport |-> view.viewport, measurement |-> measurement]

\* The canvas before a call: new, or as the call before left it.
CanvasNow == IF xf.stage = "rendered" THEN xf.state ELSE BlankCanvas

\* renderDxf is called.
RenderDxf ==
    /\ phase = "view"
    /\ xf.stage \in {"none", "rendered"}
    /\ \E view \in RenderViews : \E document \in RenderDocuments : \E grid \in Grids :
       \E measurement \in Measurements :
           xf' = [stage |-> "rendered", canvas |-> view.canvas, document |-> document,
                  options |-> OptionsOf(view, grid, measurement),
                  state |-> renderDxf(CanvasNow, view.canvas, document,
                                      OptionsOf(view, grid, measurement))]
    /\ ParserUnchanged

NextRender == RenderDxf

SpecRender == InitXform /\ [][NextRender]_vars

\* Whether the bounds of the entities are of no span.
ZeroSpan(bounds) ==
    bounds # Null /\ bounds.minX = bounds.maxX /\ bounds.minY = bounds.maxY

\* Nothing but the clearing and the background is on the surface.
OnlyBackground(q) ==
    /\ \A k \in 1..Len(q.state.surface) : q.state.surface[k].op \in {"clearRect", "fillRect"}
    /\ q.state.surface[Len(q.state.surface)].op = "fillRect"
    /\ q.state.surface[Len(q.state.surface)].context.fillStyle = q.options.backgroundColor

\* C17 as stated: for a document of no entities, or of bounds of no span,
\* renderDxf clears the surface, fills the background and draws nothing else.
C17_DegenerateDrawsBackgroundOnly ==
    (/\ xf.stage = "rendered"
     /\ xf.document.entities = <<>> \/ ZeroSpan(computeBounds(xf.document.entities)))
        => OnlyBackground(xf)

\* The part that holds: a document of no entities gives the background only.
EmptyDrawsBackgroundOnly ==
    (xf.stage = "rendered" /\ xf.document.entities = <<>>) => OnlyBackground(xf)

\* A line of no length is drawn with the grid shown and a measurement set:
\* the grid, the line and the overlay are painted.
ZeroSpanIsDrawn ==
    /\ xf.stage = "rendered"
    /\ ZeroSpan(computeBounds(xf.document.entities))
    /\ \E k \in 1..Len(xf.state.surface) : xf.state.surface[k].op = "gridLines"
    /\ \E k \in 1..Len(xf.state.surface) : xf.state.surface[k].op = "stroke"
    /\ \E k \in 1..Len(xf.state.surface) : xf.state.surface[k].op = "fillArc"

\* C18: after any sequence of calls of renderDxf the canvas is what the last
\* call alone makes of a new canvas: its surface, its size and its context
\* depend on the inputs of the last call only (so a call repeated with the
\* same inputs leaves the same surface).
C18_SurfaceIsOfLastCallAlone ==
    xf.stage = "rendered" =>
        xf.state = renderDxf(BlankCanvas, xf.canvas, xf.document, xf.options)

\* A canvas after a call that painted the grid, entities and a measurement
\* on a bitmap of another size than a new canvas has, one pixel wider than
\* the rectangle cleared and filled.
C18_Witness ==
    /\ xf.stage = "rendered"
    /\ Len(xf.state.surface) > 4
    /\ xf.state.width = Num(17)
    /\ xf.state.surface[1].op = "clearRect"
    /\ xf.state.context # DefaultContext

----------------------------------------------------------------------------
(* DxfFileView: the fields of the view and its handlers                    *)

DEFAULT_SETTINGS ==
    [lineColor |-> "#4c9aff", backgroundColor |-> "#10131a", padding |-> Num(24),
     showGridlines |-> TRUE, gridSizeMm |-> Num(1)]

\* The canvas element onOpen creates: its size on the page, and the left and
\* top of its getBoundingClientRect.
CanvasEl ==
    [clientWidth |-> Num(98), clientHeight |-> Num(88), left |-> Num(20), top |-> Num(10)]

createDefaultViewport == [zoom |-> Num(1), panX |-> Num(0), panY |-> Num(0)]

\* The fields of a new DxfFileView. infoEl is the text of the info element
\* and shown what the canvas shows (both null while there are no elements);
\* gestures counts the changes of the viewport by wheel and drag.
NewView ==
    [stage |-> "view", canvasEl |-> Null, infoEl |-> Null, shown |-> Null,
     rawData |-> <<>>, parsedDocument |-> Null, parseError |-> Null,
     viewport |-> createDefaultViewport, measureModeEnabled |-> FALSE,
     useInches |-> FALSE, measureStart |-> Null, measureEnd |-> Null,
     hoverVertex |-> Null, isPanning |-> FALSE, pointerDragged |-> FALSE,
     activePointerId |-> Null, pointerDownButton |-> Null,
     pointerDownX |-> Num(0), pointerDownY |-> Num(0),
     lastPointerX |-> Num(0), lastPointerY |-> Num(0), gestures |-> 0]

createRenderOptions(view) ==
    [lineColor |-> DEFAULT_SETTINGS.lineColor,
     backgroundColor |-> DEFAULT_SETTINGS.backgroundColor,
     padding |-> DEFAULT_SETTINGS.padding,
     showGridlines |-> DEFAULT_SETTINGS.showGridlines,
     gridSizeMm |-> DEFAULT_SETTINGS.gridSizeMm,
     viewport |-> view.viewport,
     measurement |-> [start |-> view.measureStart, end |-> view.measureEnd,
                      hover |-> IF view.measureModeEnabled THEN view.hoverVertex
                                ELSE Null]]

\* Math.hypot(dx, dy), known by the sum of the squares.
MathHypot(dx, dy) == [hypot |-> RAdd(RMul(dx, dx), RMul(dy, dy))]

\* Whether |a| < 1 / k for a whole k.
AbsBelow(a, k) == Abs(a.n) < (a.d + (k - 1)) \div k

getMeasurementText(view) ==
    IF ~view.measureModeEnabled THEN [text |-> " Measure mode is off."]
    ELSE IF view.measureStart = Null THEN [text |-> " Click a vertex to start measuring."]
    ELSE IF view.measureEnd = Null THEN [text |-> " Start selected. Click a second vertex."]
    ELSE [distanceMm |-> MathHypot(RSub(view.measureEnd.x, view.measureStart.x),
                                   RSub(view.measureEnd.y, view.measureStart.y)),
          inches |-> view.useInches]

\* The canvas after clearRect over all of it.
Cleared == [cleared |-> TRUE]

\* renderCurrentData: the text of the info element, and on the canvas either
\* nothing (clearRect) or what renderDxf paints for the document and the
\* options, which the canvas is known by.
renderCurrentData(view) ==
    IF view.canvasEl = Null \/ view.infoEl = Null THEN view
    ELSE IF Trim(view.rawData) = <<>>
         THEN [view EXCEPT !.infoEl = [text |-> "No dxf content loaded."],
                           !.shown = Cleared]
    ELSE IF view.parseError # Null
         THEN [view EXCEPT !.infoEl = [text |-> "Failed to parse dxf"], !.shown = Cleared]
    ELSE IF view.parsedDocument = Null
         THEN [view EXCEPT !.infoEl = [text |-> "No entities found."], !.shown = Cleared]
    ELSE [view EXCEPT !.shown = [document |-> view.parsedDocument,
                                 options |-> createRenderOptions(view)],
                      !.infoEl = [rendered |-> Len(view.parsedDocument.entities),
                                  measureText |-> getMeasurementText(view),
                                  warningText |-> view.parsedDocument.warnings]]

\* The files the view is given: a blank one, and a drawing of two lines with
\* the vertices (0, 0), (10, 8) and (10, 0).
ViewLines ==
    << <<"0">>, LINE, <<"1", "0">>, <<"0">>, <<"2", "0">>, <<"0">>,
       <<"1", "1">>, <<"1", "0">>, <<"2", "1">>, <<"8">>,
       <<"0">>, LINE, <<"1", "0">>, <<"1", "0">>, <<"2", "0">>, <<"8">>,
       <<"1", "1">>, <<"1", "0">>, <<"2", "1">>, <<"0">> >>
DrawingFile == JoinLines(RunPrefix \o ViewLines \o RunSuffix)
ViewFiles == {<<" ">>, DrawingFile}

\* Another drawing: the first of the two lines alone, with the vertices
\* (0, 0) and (10, 8).
OneLineFile == JoinLines(RunPrefix \o SubSeq(ViewLines, 1, 10) \o RunSuffix)
KnownFiles == ViewFiles \cup {OneLineFile}

\* parseDxf of each file.
ParsedFiles == [text \in KnownFiles |-> parseDxf(text)]

\* reparseData; parseDxf does not throw, so there is no parse error. The
\* data is one of the files.
reparseData(view) ==
    IF Trim(view.rawData) = <<>>
    THEN [view EXCEPT !.parsedDocument = Null, !.parseError = Null]
    ELSE [view EXCEPT !.parsedDocument = ParsedFiles[view.rawData], !.parseError = Null]

\* resetViewport without the assignment.
resetViewportKeeps(view) == view

resetViewport(view) == [view EXCEPT !.viewport = createDefaultViewport]

resetMeasurement(view) ==
    [view EXCEPT !.measureStart = Null, !.measureEnd = Null, !.hoverVertex = Null]

stopPanning(view) ==
    [view EXCEPT !.isPanning = FALSE, !.pointerDragged = FALSE,
                 !.activePointerId = Null, !.pointerDownButton = Null]

\* setViewData from its if statement on.
WithData(view, data) == renderCurrentData(reparseData([view EXCEPT !.rawData = data]))

\* setViewData without its if statement.
setViewDataKeeps(view, data) == WithData(view, data)

setViewData(view, data) ==
    IF data # view.rawData THEN WithData(resetMeasurement(resetViewport(view)), data)
    ELSE WithData(view, data)

\* clear()
clearView(view) ==
    renderCurrentData(resetMeasurement(resetViewport(
        [view EXCEPT !.rawData = <<>>, !.parsedDocument = Null, !.parseError = Null])))

onOpen(view) ==
    renderCurrentData(reparseData([view EXCEPT !.canvasEl = CanvasEl, !.infoEl = [text |-> ""],
                                               !.shown = Cleared]))

onClose(view) ==
    stopPanning([view EXCEPT !.canvasEl = Null, !.infoEl = Null, !.shown = Null])

\* toggleMeasureMode without the reset of the measurement.
toggleMeasureModeKeeps(view) == view

\* if (!this.measureModeEnabled) { this.resetMeasurement(); }
toggleMeasureModeOff(view) ==
    IF ~view.measureModeEnabled THEN resetMeasurement(view) ELSE view

toggleMeasureMode(view) ==
    renderCurrentData(toggleMeasureModeOff(
        [view EXCEPT !.measureModeEnabled = ~view.measureModeEnabled]))

onUnitCheckboxChange(view, checked) ==
    IF view.canvasEl = Null THEN view
    ELSE renderCurrentData([view EXCEPT !.useInches = checked])

\* clientToCanvasPoint and findNearestVertex(..., 14): the vertex found.
findNearestVertexAtClient(view, clientX, clientY) ==
    IF view.canvasEl = Null \/ view.parsedDocument = Null THEN Null
    ELSE findNearestVertex(view.canvasEl, view.parsedDocument, createRenderOptions(view),
                           RSub(clientX, view.canvasEl.left),
                           RSub(clientY, view.canvasEl.top), Num(14)).bestPoint

samePoint(a, b) ==
    IF a = Null /\ b = Null THEN TRUE
    ELSE IF a = Null \/ b = Null THEN FALSE
    ELSE AbsBelow(RSub(a.x, b.x), 1000000000) /\ AbsBelow(RSub(a.y, b.y), 1000000000)

\* updateHoverVertex from its constant nextHover.
Hovered(view, nextHover) ==
    IF samePoint(nextHover, view.hoverVertex) THEN view
    ELSE renderCurrentData([view EXCEPT !.hoverVertex = nextHover])

\* The vertex the handler of a pointer event finds at the place of the
\* event: updateHoverVertex and handleMeasurementClick look for it in measure
\* mode only, in the view as it is when the handler starts.
NearestAt(view, event) ==
    IF view.measureModeEnabled
    THEN findNearestVertexAtClient(view, event.clientX, event.clientY)
    ELSE Null

\* updateHoverVertex; nearest is NearestAt for the event.
updateHoverVertex(view, nearest) ==
    IF ~view.measureModeEnabled \/ view.parsedDocument = Null THEN view
    ELSE Hovered(view, nearest)

\* The choice of handleMeasurementClick without its test of measureEnd.
StartThenEnds(view, nearest) ==
    IF view.measureStart = Null
    THEN [view EXCEPT !.measureStart = nearest, !.measureEnd = Null]
    ELSE [view EXCEPT !.measureEnd = nearest]

\* if (!this.measureStart || this.measureEnd) { ... } else { ... }
StartOrEnd(view, nearest) ==
    IF view.measureStart = Null \/ view.measureEnd # Null
    THEN [view EXCEPT !.measureStart = nearest, !.measureEnd = Null]
    ELSE [view EXCEPT !.measureEnd = nearest]

\* handleMeasurementClick from its constant nearest.
Clicked(view, nearest) ==
    IF nearest = Null THEN renderCurrentData(view)
    ELSE renderCurrentData([StartOrEnd(view, nearest) EXCEPT !.hoverVertex = nearest])

\* handleMeasurementClick; nearest is NearestAt for the event.
handleMeasurementClick(view, nearest) ==
    IF ~view.measureModeEnabled \/ view.canvasEl = Null \/ view.parsedDocument = Null
    THEN view
    ELSE Clicked(view, nearest)

onPointerDown(view, event) ==
    IF view.canvasEl = Null THEN view
    ELSE IF event.button # Num(0) /\ event.button # Num(1) THEN view
    ELSE [view EXCEPT !.isPanning = TRUE, !.pointerDragged = FALSE,
                      !.pointerDownButton = event.button,
                      !.activePointerId = event.pointerId,
                      !.pointerDownX = event.clientX, !.pointerDownY = event.clientY,
                      !.lastPointerX = event.clientX, !.lastPointerY = event.clientY]

\* onPointerMove from const deltaX on.
Panned(view, event) ==
    renderCurrentData(
        [view EXCEPT !.viewport.panX = RAdd(@, RSub(event.clientX, view.lastPointerX)),
                     !.viewport.panY = RAdd(@, RSub(event.clientY, view.lastPointerY)),
                     !.lastPointerX = event.clientX, !.lastPointerY = event.clientY])

\* The test of the drag with <= in place of <.
MovedAtMost3(view, event) ==
    RLe(MathHypot(RSub(event.clientX, view.pointerDownX),
                  RSub(event.clientY, view.pointerDownY)).hypot, Num(9))

\* Math.hypot(movedX, movedY) < 3
MovedLessThan3(view, event) ==
    RLt(MathHypot(RSub(event.clientX, view.pointerDownX),
                  RSub(event.clientY, view.pointerDownY)).hypot, Num(9))

\* onPointerMove after updateHoverVertex.
Dragged(view, event) ==
    IF ~view.isPanning \/ view.activePointerId # event.pointerId THEN view
    ELSE IF ~view.pointerDragged /\ MovedLessThan3(view, event) THEN view
    ELSE Panned([view EXCEPT !.pointerDragged = TRUE], event)

onPointerMove(view, event, nearest) == Dragged(updateHoverVertex(view, nearest), event)

\* onPointerUp without stopPanning.
onPointerUpKeepsPress(view, event, nearest) ==
    IF view.activePointerId # event.pointerId THEN view
    ELSE IF ~view.pointerDragged /\ view.pointerDownButton = Num(0)
         THEN handleMeasurementClick(view, nearest)
    ELSE view

\* onPointerUp, also the handler of pointercancel and lostpointercapture.
onPointerUp(view, event, nearest) ==
    IF view.activePointerId # event.pointerId THEN view
    ELSE IF ~view.pointerDragged /\ view.pointerDownButton = Num(0)
         THEN stopPanning(handleMeasurementClick(view, nearest))
    ELSE stopPanning(view)

onPointerLeave(view) ==
    IF ~view.measureModeEnabled THEN view
    ELSE IF view.hoverVertex # Null THEN renderCurrentData([view EXCEPT !.hoverVertex = Null])
    ELSE view

\* clamp without its lower limit.
viewClampUp(value, min, max) == MathMin(max, value)

\* clamp of the view: Math.min(max, Math.max(min, value))
viewClamp(value, min, max) == MathMin(max, MathMax(min, value))

\* currentZoom * factor for a zoom above 0 and a factor from 0 to Infinity.
ZoomTimes(currentZoom, factor) ==
    IF factor = PosInf THEN PosInf ELSE RMul(currentZoom, factor)

\* cursorX - centerX - ((cursorX - centerX - oldPanX) / currentZoom) * nextZoom
PanAfter(fromCenter, oldPan, currentZoom, nextZoom) ==
    RSub(fromCenter, RMul(RDiv(RSub(fromCenter, oldPan), currentZoom), nextZoom))

\* zoomAt from its constant nextZoom.
ZoomTo(view, clientX, clientY, nextZoom) ==
    IF AbsBelow(RSub(nextZoom, view.viewport.zoom), 1000000) THEN view
    ELSE renderCurrentData(
             [view EXCEPT !.viewport =
                 [zoom |-> nextZoom,
                  panX |-> PanAfter(RSub(RSub(clientX, view.canvasEl.left),
                                         Half(view.canvasEl.clientWidth)),
                                    view.viewport.panX, view.viewport.zoom, nextZoom),
                  panY |-> PanAfter(RSub(RSub(clientY, view.canvasEl.top),
                                         Half(view.canvasEl.clientHeight)),
                                    view.viewport.panY, view.viewport.zoom, nextZoom)]])

zoomAt(view, clientX, clientY, factor) ==
    IF view.canvasEl = Null THEN view
    ELSE ZoomTo(view, clientX, clientY,
                viewClamp(ZoomTimes(view.viewport.zoom, factor), Rat(1, 50), Num(200)))

deltaModeToPixels(view, deltaMode) ==
    IF view.canvasEl = Null THEN Num(1)
    ELSE IF deltaMode = 1 THEN Num(16)
    ELSE IF deltaMode = 2 THEN view.canvasEl.clientHeight
    ELSE Num(1)

\* Math.exp(x): Infinity from 710 on, 0 up to -746, 1 at 0, and for the other
\* arguments used the value to two digits.
MathExp(x) ==
    IF RLe(Num(710), x) THEN PosInf
    ELSE IF RLe(x, Num(-746)) THEN Num(0)
    ELSE CASE x = Num(0) -> Num(1)
           [] x = Rat(347, 500) -> Num(2)
           [] x = Rat(2303, 500) -> Num(100)
           [] x = Rat(-2303, 500) -> Rat(1, 100)

\* onWheel without the ctrl or meta key: the viewport is moved.
Scrolled(view, event, deltaScale) ==
    renderCurrentData(
        [view EXCEPT !.viewport.panX = RSub(@, RMul(event.deltaX, deltaScale)),
                     !.viewport.panY = RSub(@, RMul(event.deltaY, deltaScale))])

onWheel(view, event) ==
    IF view.canvasEl = Null THEN view
    ELSE IF event.ctrlKey \/ event.metaKey
         THEN zoomAt(view, event.clientX, event.clientY,
                     MathExp(RMul(RNeg(event.deltaY), Rat(1, 500))))
    ELSE Scrolled(view, event, deltaModeToPixels(view, event.deltaMode))

onDoubleClick(view) == renderCurrentData(resetViewport(view))

\* Places of the pointer in the window: on the vertices (0, 0) and (10, 8) as
\* the new viewport shows them, and the middle of the canvas, which is
\* further than 14 pixels from every vertex.
OnFirstVertex == [clientX |-> Num(44), clientY |-> Num(74)]
OnSecondVertex == [clientX |-> Num(94), clientY |-> Num(34)]
MidCanvas == [clientX |-> Num(69), clientY |-> Num(54)]
Places == {OnFirstVertex, OnSecondVertex, MidCanvas}

PointerEvent(pointerId, button, place) ==
    [pointerId |-> pointerId, button |-> button, clientX |-> place.clientX,
     clientY |-> place.clientY]

\* The pointer events of the measuring: the main and the middle button.
MeasurePointerEvents ==
    {PointerEvent(Num(1), button, place) : button \in {Num(0), Num(1)}, place \in Places}

\* The pointer events of the zooming: the main and the secondary button.
ZoomPointerEvents ==
    {PointerEvent(Num(1), button, place) :
        button \in {Num(0), Num(2)}, place \in {OnFirstVertex, MidCanvas}}

WheelEvent(keys, place, deltaX, deltaY, deltaMode) ==
    [ctrlKey |-> keys[1], metaKey |-> keys[2], clientX |-> place.clientX,
     clientY |-> place.clientY, deltaX |-> Num(deltaX), deltaY |-> Num(deltaY),
     deltaMode |-> deltaMode]

\* Wheel events with ctrl or cmd held, over the first vertex or the middle
\* of the canvas: deltaY is 0, makes a factor near 100 or 1/100, or is so
\* large that Math.exp gives 0 or Infinity.
ZoomDeltas == {0, -2303, 2303, -1000000, 1000000}
ZoomEvents ==
    {WheelEvent(<<TRUE, FALSE>>, place, 0, deltaY, 0) :
        place \in {OnFirstVertex, MidCanvas}, deltaY \in ZoomDeltas}
    \cup {WheelEvent(<<FALSE, TRUE>>, MidCanvas, 0, -347, 0)}

\* Wheel events without the keys, in pixels, lines and pages.
ScrollEvents ==
    {WheelEvent(<<FALSE, FALSE>>, MidCanvas, scroll[1], scroll[2], scroll[3]) :
        scroll \in {<<0, 3, 0>>, <<-1, 0, 1>>, <<0, 1, 2>>}}

\* The wheel events of the measuring: the zoom is doubled, or the viewport
\* moved by three pixels.
MeasureWheelEvents ==
    {WheelEvent(<<TRUE, FALSE>>, MidCanvas, 0, -347, 0),
     WheelEvent(<<FALSE, FALSE>>, MidCanvas, 0, 3, 0)}

MaxGestures == 2
MaxPans == 1

\* A change of the viewport by wheel or drag is counted.
Gesture(before, after) ==
    IF after.viewport = before.viewport THEN after
    ELSE [after EXCEPT !.gestures = before.gestures + 1]

IsView == phase = "view" /\ xf.stage = "view"
HasCanvas == IsView /\ xf.canvasEl # Null

CreateView ==
    /\ phase = "view"
    /\ xf.stage = "none"
    /\ xf' = NewView
    /\ ParserUnchanged

OnOpen ==
    /\ IsView
    /\ xf.canvasEl = Null
    /\ xf' = onOpen(xf)
    /\ ParserUnchanged

OnClose ==
    /\ HasCanvas
    /\ xf' = onClose(xf)
    /\ ParserUnchanged

SetViewData(files) ==
    /\ IsView
    /\ \E data \in files : xf' = setViewData(xf, data)
    /\ ParserUnchanged

Clear ==
    /\ IsView
    /\ xf' = clearView(xf)
    /\ ParserUnchanged

ToggleMeasureMode ==
    /\ HasCanvas
    /\ xf' = toggleMeasureMode(xf)
    /\ ParserUnchanged

OnUnitCheckboxChange ==
    /\ HasCanvas
    /\ \E checked \in BOOLEAN : xf' = onUnitCheckboxChange(xf, checked)
    /\ ParserUnchanged

OnPointerDown(events) ==
    /\ HasCanvas
    /\ \E event \in events : xf' = onPointerDown(xf, event)
    /\ ParserUnchanged

\* The events of a pointer that moves or is released are told apart by the
\* pointer and the place.
OfMainButton(events) == {event \in events : event.button = Num(0)}

\* At most `most` changes of the viewport by wheel and drag are followed.
OnPointerMove(events, most) ==
    /\ HasCanvas
    /\ \E event \in OfMainButton(events) : \E nearest \in {NearestAt(xf, event)} :
           /\ xf' = Gesture(xf, onPointerMove(xf, event, nearest))
           /\ xf'.gestures <= most
    /\ ParserUnchanged

OnPointerUp(events) ==
    /\ HasCanvas
    /\ \E event \in OfMainButton(events) : \E nearest \in {NearestAt(xf, event)} :
           xf' = onPointerUp(xf, event, nearest)
    /\ ParserUnchanged

OnPointerLeave ==
    /\ HasCanvas
    /\ xf' = onPointerLeave(xf)
    /\ ParserUnchanged

OnWheel(events, most) ==
    /\ HasCanvas
    /\ \E event \in events :
           /\ xf' = Gesture(xf, onWheel(xf, event))
           /\ xf'.gestures <= most
    /\ ParserUnchanged

OnDoubleClick ==
    /\ HasCanvas
    /\ xf' = onDoubleClick(xf)
    /\ ParserUnchanged

\* The view while the drawing is zoomed and moved; measure mode stays off.
NextZoom ==
    \/ CreateView \/ OnOpen \/ OnClose \/ SetViewData(ViewFiles) \/ Clear
    \/ OnPointerDown(ZoomPointerEvents) \/ OnPointerMove(ZoomPointerEvents, MaxGestures)
    \/ OnPointerUp(ZoomPointerEvents) \/ OnWheel(ZoomEvents \cup ScrollEvents, MaxGestures)
    \/ OnDoubleClick

SpecZoom == InitXform /\ [][NextZoom]_vars

\* The view while the drawing is measured.
NextMeasure ==
    \/ CreateView \/ OnOpen \/ OnClose \/ SetViewData({DrawingFile}) \/ Clear
    \/ ToggleMeasureMode \/ OnUnitCheckboxChange
    \/ OnPointerDown(MeasurePointerEvents) \/ OnPointerMove(MeasurePointerEvents, MaxPans)
    \/ OnPointerUp(MeasurePointerEvents) \/ OnPointerLeave
    \/ OnWheel(MeasureWheelEvents, MaxPans) \/ OnDoubleClick

SpecMeasure == InitXform /\ [][NextMeasure]_vars

\* The zoom a gesture asks for, between the limits.
RefZoom(zoom, factor) ==
    IF factor = PosInf THEN Num(200)
    ELSE IF RLt(RMul(zoom, factor), Rat(1, 50)) THEN Rat(1, 50)
    ELSE IF RLt(Num(200), RMul(zoom, factor)) THEN Num(200)
    ELSE RMul(zoom, factor)

\* The zoom after is the zoom asked for, or that is less than 1e-6 from the
\* zoom before and the zoom stays.
StoresZoom(before, after, asked) ==
    \/ after = asked
    \/ after = before /\ RLt(RSub(asked, before), Epsilon) /\ RLt(RSub(before, asked), Epsilon)

ClickOf(view, event) ==
    /\ view.canvasEl # Null
    /\ view.measureModeEnabled
    /\ view.parsedDocument # Null
    /\ view.activePointerId = event.pointerId
    /\ ~view.pointerDragged
    /\ view.pointerDownButton = Num(0)

\* What the cycle makes of a measurement for the vertex a click snaps to.
Cycle(view, after, nearest) ==
    IF nearest = Null
    THEN after.measureStart = view.measureStart /\ after.measureEnd = view.measureEnd
    ELSE IF view.measureStart = Null \/ view.measureEnd # Null
         THEN after.measureStart = nearest /\ after.measureEnd = Null
    ELSE after.measureStart = view.measureStart /\ after.measureEnd = nearest

\* The pointer goes down with the main button and is released, both at the
\* place of the event, where nearest is found.
ClickAt(view, event, nearest) == onPointerUp(onPointerDown(view, event), event, nearest)

\* After two clicks that snap both ends are set.
BothSetAfter(view, first, second) ==
    \A nearest \in {NearestAt(view, first)} :
        nearest # Null =>
            \A afterFirst \in {ClickAt(view, first, nearest)} :
                \A next \in {NearestAt(afterFirst, second)} :
                    next # Null =>
                        \A afterSecond \in {ClickAt(afterFirst, second, next)} :
                            /\ afterSecond.measureStart # Null
                            /\ afterSecond.measureEnd # Null

ClickEvents == OfMainButton(MeasurePointerEvents)

\* C20: a set end implies a set start; a click in measure mode with a
\* document follows the cycle (no start, or both ends: start is the vertex
\* and end is cleared; start only: end is the vertex; no vertex: neither
\* changes); two clicks that snap, from no measurement, set both ends.
C20_MeasurementCycle ==
    IsView =>
        /\ xf.measureEnd # Null => xf.measureStart # Null
        /\ \A event \in ClickEvents :
               ClickOf(xf, event) =>
                   \A nearest \in {NearestAt(xf, event)} :
                       \A after \in {onPointerUp(xf, event, nearest)} :
                           Cycle(xf, after, nearest)
        /\ (/\ xf.canvasEl # Null /\ xf.measureModeEnabled /\ xf.parsedDocument # Null
            /\ xf.measureStart = Null /\ xf.measureEnd = Null)
               => \A first \in ClickEvents : \A second \in ClickEvents :
                      BothSetAfter(xf, first, second)

\* Both ends are set, on different vertices, and the distance is shown.
C20_Witness ==
    /\ IsView
    /\ xf.measureModeEnabled
    /\ xf.measureStart # Null
    /\ xf.measureEnd # Null
    /\ xf.measureEnd # xf.measureStart
    /\ xf.infoEl # Null
    /\ "measureText" \in DOMAIN xf.infoEl
    /\ "distanceMm" \in DOMAIN xf.infoEl.measureText

----------------------------------------------------------------------------
(* The hover ring in the frame the canvas shows                            *)

\* The transform renderDxf makes for what the canvas of the view shows.
FrameTransform(view) ==
    createTransformForCanvas(view.shown.document, CanvasSize(CanvasEl.clientWidth),
                             CanvasSize(CanvasEl.clientHeight), view.shown.options)

\* The ring of drawMeasurementHoverHandle is among the paints, at the place.
HoverRingAt(paints, place) ==
    \E k \in 1..Len(paints) :
        /\ paints[k].op = "strokeArc"
        /\ paints[k].radius = Num(7)
        /\ paints[k].center = place
        /\ paints[k].context.strokeStyle = MEASUREMENT_HOVER_COLOR

\* The frame on the canvas of the view has the hover ring at the vertex: the
\* last paints of renderDxf, which nothing is painted over, have it.
ShowsHoverRing(view, vertex) ==
    /\ view.shown # Null
    /\ view.shown # Cleared
    /\ \A transform \in {FrameTransform(view)} :
           /\ transform # Null
           /\ HoverRingAt(WithMeasurement(BlankCanvas, transform, view.shown.options).surface,
                          toScreen(vertex, transform))

\* The pointer moves in measure mode over a drawing.
Hovering(view) ==
    /\ view.canvasEl # Null
    /\ view.measureModeEnabled
    /\ view.parsedDocument # Null

\* After the move of the pointer to the place of the event, where nearest is
\* found, nearest is the hover vertex and, if needed, the frame has its ring.
RingAfterMove(view, event, nearest, needed) ==
    \A after \in {onPointerMove(view, event, nearest)} :
        /\ after.hoverVertex = nearest
        /\ needed => ShowsHoverRing(after, nearest)

MoveEvents == OfMainButton(MeasurePointerEvents)

\* C21 as stated: in measure mode, after every move of the pointer to a
\* place within 14 pixels of a vertex, the frame shows the hover ring at
\* that vertex, whether or not a start or an end of the measurement is set.
C21_HoverRingInEveryState ==
    (IsView /\ Hovering(xf)) =>
        \A event \in MoveEvents : \A nearest \in {NearestAt(xf, event)} :
            nearest # Null => RingAfterMove(xf, event, nearest, TRUE)

\* The part that holds: the vertex is stored as the hover vertex in every
\* state of the measurement, and the ring is in the frame once a start is set.
HoverRingOnceStarted ==
    (IsView /\ Hovering(xf)) =>
        \A event \in MoveEvents : \A nearest \in {NearestAt(xf, event)} :
            nearest # Null => RingAfterMove(xf, event, nearest, xf.measureStart # Null)

\* Measure mode is on, the pointer is over a vertex before the first click,
\* and the frame the canvas shows has no hover ring.
HoverWithoutRing ==
    /\ IsView
    /\ Hovering(xf)
    /\ xf.hoverVertex # Null
    /\ xf.measureStart = Null
    /\ xf.measureEnd = Null
    /\ xf.shown # Cleared
    /\ xf.shown.options.measurement.hover = xf.hoverVertex
    /\ ~ShowsHoverRing(xf, xf.hoverVertex)

----------------------------------------------------------------------------
(* Measure mode off: no measurement                                        *)

\* The view has no start, no end and no hover vertex.
NoMeasurement(view) ==
    /\ view.measureStart = Null
    /\ view.measureEnd = Null
    /\ view.hoverVertex = Null

\* C22: the measure button turns measure mode on when it is off and off when
\* it is on, turning it off leaves no measurement, and in every state of the
\* view with measure mode off the start, the end and the hover vertex are
\* unset.
C22_OffMeansNoMeasurement ==
    IsView =>
        /\ ~xf.measureModeEnabled => NoMeasurement(xf)
        /\ toggleMeasureMode(xf).measureModeEnabled = ~xf.measureModeEnabled
        /\ xf.measureModeEnabled => NoMeasurement(toggleMeasureMode(xf))

\* A measurement with both ends and a hover vertex is there in measure mode,
\* and the measure button leaves measure mode off and none of the three.
C22_Witness ==
    /\ IsView
    /\ xf.canvasEl # Null
    /\ xf.measureModeEnabled
    /\ xf.measureStart # Null
    /\ xf.measureEnd # Null
    /\ xf.hoverVertex # Null
    /\ ~toggleMeasureMode(xf).measureModeEnabled
    /\ NoMeasurement(toggleMeasureMode(xf))

----------------------------------------------------------------------------
(* Dragging: the view with the press it is in                              *)

\* Places of the pointer near the first vertex: less than 3 pixels from it,
\* and 3 pixels from it.
NearFirstVertex == [clientX |-> Num(46), clientY |-> Num(75)]
ThreeFromFirstVertex == [clientX |-> Num(44), clientY |-> Num(77)]

\* Pointer 1 goes down on the first vertex with the main, the middle or the
\* secondary button.
DragDownEvents ==
    {PointerEvent(Num(1), button, OnFirstVertex) : button \in {Num(0), Num(1), Num(2)}}

\* The moves of pointer 1 and of another pointer, and the release of
\* pointer 1.
DragMoveEvents ==
    {PointerEvent(Num(1), Num(0), place) :
        place \in {NearFirstVertex, ThreeFromFirstVertex, OnSecondVertex}}
    \cup {PointerEvent(Num(2), Num(0), OnSecondVertex)}

DragUpEvents == {PointerEvent(Num(1), Num(0), MidCanvas)}

DragWheelEvents == {WheelEvent(<<FALSE, FALSE>>, MidCanvas, 0, 3, 0)}

MaxMoves == 2

\* The press the view is in, as the events tell it: the viewport when the
\* pointer went down, the pointer and where it went down, where its last
\* move was, whether one of its moves was 3 pixels or more from where it went
\* down, and whether a wheel, double-click or data event came since.
PressOf(view, event) ==
    [viewport |-> view.viewport, pointerId |-> event.pointerId,
     downX |-> event.clientX, downY |-> event.clientY,
     atX |-> event.clientX, atY |-> event.clientY, far |-> FALSE, intervened |-> FALSE]

AtLeast3Away(press, event) ==
    RLe(Num(9), RAdd(RMul(RSub(event.clientX, press.downX), RSub(event.clientX, press.downX)),
                     RMul(RSub(event.clientY, press.downY), RSub(event.clientY, press.downY))))

PressAfterDown(press, view, event) ==
    IF event.button \in {Num(0), Num(1)} THEN PressOf(view, event) ELSE press

PressAfterMove(press, event) ==
    IF press = Null THEN press
    ELSE IF press.pointerId # event.pointerId THEN press
    ELSE [press EXCEPT !.far = @ \/ AtLeast3Away(press, event),
                       !.atX = event.clientX, !.atY = event.clientY]

PressAfterUp(press, event) ==
    IF press = Null THEN press
    ELSE IF press.pointerId # event.pointerId THEN press
    ELSE Null

Intervened(press) == IF press = Null THEN press ELSE [press EXCEPT !.intervened = TRUE]

CreateDragView ==
    /\ phase = "view"
    /\ xf.stage = "none"
    /\ xf' = NewView @@ [press |-> Null]
    /\ ParserUnchanged

DragDown ==
    /\ HasCanvas
    /\ \E event \in DragDownEvents :
           xf' = [onPointerDown(xf, event) EXCEPT !.press = PressAfterDown(@, xf, event)]
    /\ ParserUnchanged

DragMove ==
    /\ HasCanvas
    /\ \E event \in DragMoveEvents : \E nearest \in {NearestAt(xf, event)} :
           /\ xf' = [Gesture(xf, onPointerMove(xf, event, nearest))
                         EXCEPT !.press = PressAfterMove(@, event)]
           /\ xf'.gestures <= MaxMoves
    /\ ParserUnchanged

\* pointerup, pointercancel and lostpointercapture
DragUp ==
    /\ HasCanvas
    /\ \E event \in DragUpEvents : \E nearest \in {NearestAt(xf, event)} :
           xf' = [onPointerUp(xf, event, nearest) EXCEPT !.press = PressAfterUp(@, event)]
    /\ ParserUnchanged

DragWheel ==
    /\ HasCanvas
    /\ \E event \in DragWheelEvents :
           /\ xf' = [Gesture(xf, onWheel(xf, event)) EXCEPT !.press = Intervened(@)]
           /\ xf'.gestures <= MaxMoves
    /\ ParserUnchanged

DragDoubleClick ==
    /\ HasCanvas
    /\ xf' = [onDoubleClick(xf) EXCEPT !.press = Intervened(@)]
    /\ ParserUnchanged

\* The data events: setViewData and clear.
DragSetViewData ==
    /\ IsView
    /\ xf' = [setViewData(xf, DrawingFile) EXCEPT !.press = Intervened(@)]
    /\ ParserUnchanged

DragClear ==
    /\ IsView
    /\ xf' = [clearView(xf) EXCEPT !.press = Intervened(@)]
    /\ ParserUnchanged

\* onClose takes the canvas away: the press is over.
DragClose ==
    /\ HasCanvas
    /\ xf' = [onClose(xf) EXCEPT !.press = Null]
    /\ ParserUnchanged

NextDrag ==
    \/ CreateDragView \/ OnOpen \/ DragClose \/ DragSetViewData \/ DragClear
    \/ ToggleMeasureMode \/ OnPointerLeave
    \/ DragDown \/ DragMove \/ DragUp \/ DragWheel \/ DragDoubleClick

SpecDrag == InitXform /\ [][NextDrag]_vars

\* The viewport of the press, moved by the way of the pointer from where it
\* went down to where it is.
PannedBy(press) ==
    [zoom |-> press.viewport.zoom,
     panX |-> RAdd(press.viewport.panX, RSub(press.atX, press.downX)),
     panY |-> RAdd(press.viewport.panY, RSub(press.atY, press.downY))]

\* The viewport is the one of the press until a move was 3 pixels or more
\* away, and from then on the one of the press moved with the pointer.
DragFollows(view) ==
    IF view.press.far THEN view.viewport = PannedBy(view.press)
    ELSE view.viewport = view.press.viewport

\* The moves of the pointers that are not the active one.
OtherMoves(view) ==
    {event \in DragMoveEvents : view.isPanning /\ event.pointerId # view.activePointerId}

\* The viewport and the press are after as before.
KeepsDrag(view, after) ==
    /\ after.viewport = view.viewport
    /\ after.isPanning = view.isPanning
    /\ after.pointerDragged = view.pointerDragged
    /\ after.activePointerId = view.activePointerId
    /\ after.pointerDownButton = view.pointerDownButton
    /\ after.pointerDownX = view.pointerDownX /\ after.pointerDownY = view.pointerDownY
    /\ after.lastPointerX = view.lastPointerX /\ after.lastPointerY = view.lastPointerY

\* What a move of another pointer leaves: all of the view (as stated), or
\* the viewport and the press.
OtherMoveKeeps(view, event, all) ==
    \A nearest \in {NearestAt(view, event)} :
        \A after \in {onPointerMove(view, event, nearest)} :
            IF all THEN after = view ELSE KeepsDrag(view, after)

\* C23 as stated: in a press with button 0 or 1, with no wheel, double-click
\* or data event since, the pan is the one at press time until a move of the
\* active pointer is 3 pixels or more from the press position and from then
\* on the pan at press time plus the way of the pointer; the zoom is the one
\* at press time; a move of another pointer changes nothing of the view.
C23_OtherMovesChangeNothing ==
    (IsView /\ xf.press # Null) =>
        /\ ~xf.press.intervened => DragFollows(xf)
        /\ \A event \in OtherMoves(xf) : OtherMoveKeeps(xf, event, TRUE)

\* C23, amended: the same, but a move of another pointer leaves the viewport
\* and the fields of the press unchanged (in measure mode it still sets the
\* hover vertex and draws the frame anew).
C23_DragPans ==
    (IsView /\ xf.press # Null) =>
        /\ ~xf.press.intervened => DragFollows(xf)
        /\ \A event \in OtherMoves(xf) : OtherMoveKeeps(xf, event, FALSE)

\* The pointer was 3 pixels or more away and is back at less than 3 pixels
\* from where it went down: the pan is still that of the press plus the way.
C23_Witness ==
    /\ IsView
    /\ xf.press # Null
    /\ ~xf.press.intervened
    /\ xf.press.far
    /\ ~AtLeast3Away(xf.press, [clientX |-> xf.press.atX, clientY |-> xf.press.atY])
    /\ xf.viewport # xf.press.viewport
    /\ xf.viewport = PannedBy(xf.press)
    /\ xf.gestures = 2

----------------------------------------------------------------------------
(* The double click                                                        *)

\* The measure mode, the measurement and the data are after as before.
KeepsMeasurementAndData(view, after) ==
    /\ after.measureModeEnabled = view.measureModeEnabled
    /\ after.measureStart = view.measureStart
    /\ after.measureEnd = view.measureEnd
    /\ after.rawData = view.rawData
    /\ after.parsedDocument = view.parsedDocument

\* C24: from every state of the view a double click leaves the zoom 1 and
\* the pan (0, 0), and the measure mode, the start and the end of the
\* measurement, the raw data and the parsed document as they were.
C24_DoubleClickResetsViewport ==
    IsView =>
        \A after \in {onDoubleClick(xf)} :
            /\ after.viewport = [zoom |-> Num(1), panX |-> Num(0), panY |-> Num(0)]
            /\ KeepsMeasurementAndData(xf, after)

\* The view is zoomed, with both ends of a measurement set, and
\* the double click shows the drawing with the new viewport.
C24_Witness ==
    /\ IsView
    /\ xf.canvasEl # Null
    /\ xf.viewport.zoom = Num(2)
    /\ xf.measureModeEnabled
    /\ xf.measureStart # Null
    /\ xf.measureEnd # Null
    /\ onDoubleClick(xf).shown.options.viewport = createDefaultViewport
    /\ onDoubleClick(xf).shown.options.measurement.end = xf.measureEnd

----------------------------------------------------------------------------
(* The section pair and the run after it                                   *)

\* The 0-based indices k of the tag records where (0, SECTION) stands,
\* (2, ENTITIES) follows it and a valid LINE run follows that.
EntitiesPairsWithLine ==
    {k \in 0..(Len(groups) - 3) :
        /\ At(groups, k) = [code |-> 0, value |-> SECTION]
        /\ At(groups, k + 1) = [code |-> 2, value |-> ENTITIES]
        /\ At(groups, k + 2) = [code |-> 0, value |-> LINE]
        /\ parseSimpleEntity(groups, k + 2).entity # Null}

\* The walker had an iteration at index k which added the entity of the run
\* that starts there.
ExtractedRunAt(k) ==
    \E s \in PushingSteps :
        /\ steps[s].at = k
        /\ entities[steps[s].after] = parseSimpleEntity(groups, k).entity

\* The walker had an iteration at index k.
VisitedAt(k) == \E s \in 1..Len(steps) : steps[s].at = k

\* C25 as stated: when parseDxf returns, the valid LINE run after every
\* (0, SECTION), (2, ENTITIES) pair of the tag records was extracted,
\* whatever stands before the pair.
C25_EntitiesPairOpensSection ==
    phase = "done" => \A k \in EntitiesPairsWithLine : ExtractedRunAt(k + 2)

\* The part that holds: the run after the pair is extracted whenever the
\* walker has an iteration at the SECTION record of the pair, and it has
\* one unless the record before it is a SECTION record it had an iteration
\* at.
PairOpensSectionWhenVisited ==
    phase = "done" =>
        \A k \in EntitiesPairsWithLine :
            /\ VisitedAt(k) => ExtractedRunAt(k + 2)
            /\ ~VisitedAt(k) =>
                   /\ k > 0
                   /\ At(groups, k - 1) = [code |-> 0, value |-> SECTION]
                   /\ VisitedAt(k - 1)

\* parseDxf returned no entity for a text with a SECTION record without a
\* name, the pair and a valid LINE run.
PairAfterBareSectionIsLost ==
    /\ phase = "done"
    /\ EntitiesPairsWithLine = {1}
    /\ At(groups, 0) = [code |-> 0, value |-> SECTION]
    /\ Len(groups) = 8
    /\ entities = <<>>
    /\ ~inEntitiesSection

----------------------------------------------------------------------------
(* The nested polyline and what follows it                                 *)

MaxNested == 4

\* What is put after the start of a nested polyline: a VERTEX with its
\* point, a VERTEX without code 20, a SEQEND with a body, a record of
\* another code, and the runs that end an unterminated polyline.
NestedPieces ==
    { NestedVertex(<< <<"1">>, <<"1">> >>), NestedVertex(<< <<"2">>, <<"3">> >>),
      << <<"0">>, VERTEX, <<"1", "0">>, <<"4">> >>,
      PieceSeqend, PieceEndPoint, PieceLine, PieceEndsec, PieceSecHeader }

InitNested ==
    /\ InitParser
    /\ shape = NoShape
    /\ raw = JoinLines(RunPrefix \o PiecePolyline)

AppendNested ==
    /\ phase = "input"
    /\ runs < MaxNested
    /\ \E piece \in NestedPieces : raw' = raw \o <<LF>> \o JoinLines(piece)
    /\ runs' = runs + 1
    /\ UNCHANGED <<phase, groups, i, inEntitiesSection, entities, warnings, steps, shape, xf>>

NextNested == AppendNested \/ StartParse \/ Walk

SpecNested == InitNested /\ [][NextNested]_vars

SeqendRecord == [code |-> 0, value |-> SEQEND]
VertexRecord == [code |-> 0, value |-> VERTEX]

\* The points of the VERTEX records among the tag records from index j to
\* n - 1, in their order; the body of each goes up to the next code-0 record.
RECURSIVE PointsBetween(_, _)
PointsBetween(j, n) ==
    IF j >= n THEN <<>>
    ELSE IF At(groups, j) = VertexRecord
              /\ readPoint(Slice(groups, j + 1, NextZero(groups, j + 1)), 10, 20) # Null
         THEN <<readPoint(Slice(groups, j + 1, NextZero(groups, j + 1)), 10, 20)>>
                  \o PointsBetween(j + 1, n)
    ELSE PointsBetween(j + 1, n)

\* The extraction that starts at index a ended at n as the protocol has it:
\* at or after the end h of the header; the code-0 records it went over are
\* VERTEX records, but for a SEQEND that is the last record it went over;
\* and it ended after that SEQEND, at the end of the records, or on a code-0
\* record that is neither VERTEX nor SEQEND.
EndsByProtocol(h, n) ==
    /\ h <= n /\ n <= Len(groups)
    /\ \A j \in h..(n - 1) :
           At(groups, j).code = 0 =>
               \/ At(groups, j) = VertexRecord
               \/ At(groups, j) = SeqendRecord /\ j = n - 1
    /\ \/ n > h /\ At(groups, n - 1) = SeqendRecord
       \/ n = Len(groups)
       \/ At(groups, n).code = 0 /\ At(groups, n).value \notin {VERTEX, SEQEND}

\* The entity of iteration k has the points, or there is none for less than
\* two points.
EmitsPoints(k, points) ==
    IF Len(points) < 2 THEN Emitted(k) = Null
    ELSE Emitted(k) # Null /\ Emitted(k).type = "POLYLINE" /\ Emitted(k).points = points

\* The iterations on a nested polyline that ended without a SEQEND.
UnterminatedSteps ==
    {k \in StepsOf({"POLYLINE"}) : At(groups, steps[k].next - 1) # SeqendRecord}

\* The walker goes on from iteration k over the tag records with a SEQEND
\* record put in where the extraction of k ended, and gives the entities and
\* the flag parseDxf gave.
AsIfSeqend(k) ==
    \A result \in {WalkFrom(Take(groups, steps[k].next) \o <<SeqendRecord>>
                                \o Drop(groups, steps[k].next),
                            Walker(steps[k].at, TRUE, Take(entities, steps[k].before)))} :
        /\ result.entities = entities
        /\ result.inEntitiesSection = inEntitiesSection

\* C26: every extraction of a nested polyline ends as the protocol has it
\* and gives the points of its VERTEX records that have codes 10 and 20 (as
\* finite numbers); the walker's next iteration is at the record the
\* extraction ended on; and when parseDxf has returned, an extraction that
\* ended without a SEQEND gave what it gives with a SEQEND put in there.
C26_NestedPolylineProtocol ==
    /\ \A k \in StepsOf({"POLYLINE"}) :
           /\ EndsByProtocol(NextZero(groups, steps[k].at + 1), steps[k].next)
           /\ EmitsPoints(k, PointsBetween(NextZero(groups, steps[k].at + 1), steps[k].next))
           /\ k < Len(steps) => steps[k + 1].at = steps[k].next
    /\ phase = "done" => \A k \in UnterminatedSteps : AsIfSeqend(k)

\* parseDxf returned a polyline of two points and the line that follows its
\* last VERTEX with no SEQEND between them.
C26_Witness ==
    /\ phase = "done"
    /\ Len(entities) = 2
    /\ entities[1].type = "POLYLINE"
    /\ Len(entities[1].points) = 2
    /\ entities[2].type = "LINE"
    /\ UnterminatedSteps # {}
    /\ \A j \in 0..(Len(groups) - 1) : At(groups, j) # SeqendRecord

----------------------------------------------------------------------------
(* The body of a compact polyline                                          *)

MaxBody == 5

\* The records a body is made of: X values 1, 3 and one that is no number,
\* Y values 2 and one that is no number, and a record of another code.
BodyRecords ==
    { [code |-> 10, value |-> <<"1">>], [code |-> 10, value |-> <<"3">>],
      [code |-> 10, value |-> <<"x">>], [code |-> 20, value |-> <<"2">>],
      [code |-> 20, value |-> InfinityText], [code |-> 70, value |-> <<"1">>] }

\* The caller gathers the body of a compact polyline record by record.
AddBodyRecord ==
    /\ phase = "view"
    /\ xf.stage \in {"none", "body"}
    /\ \E rec \in BodyRecords :
           xf' = [stage |-> "body",
                  body |-> IF xf.stage = "none" THEN <<rec>> ELSE Append(xf.body, rec)]
    /\ Len(xf'.body) <= MaxBody
    /\ ParserUnchanged

\* parseLwPolyline is called for the body: its vertices when the loop has
\* ended, and the entity it returns.
ParseLwPolyline ==
    /\ phase = "view"
    /\ xf.stage = "body"
    /\ xf' = [stage |-> "compact", body |-> xf.body,
              vertices |-> LwVertices(xf.body, 1, Null, <<>>),
              entity |-> parseLwPolyline(xf.body)]
    /\ ParserUnchanged

NextCompact == AddBodyRecord \/ ParseLwPolyline

SpecCompact == InitXform /\ [][NextCompact]_vars

\* The scan of the statement over the body from record k on: state is the
\* pending X (Null for none) and the list of vertices.
RECURSIVE ScanFrom(_, _, _)
ScanFrom(body, k, state) ==
    IF k > Len(body) THEN state
    ELSE IF body[k].code = 10
         THEN ScanFrom(body, k + 1,
                       [state EXCEPT !.pending = FiniteOrNull(ParseFloat(body[k].value))])
    ELSE IF body[k].code = 20 /\ state.pending # Null
         THEN ScanFrom(body, k + 1,
                       [pending |-> Null,
                        list |-> IF IsFinite(ParseFloat(body[k].value))
                                 THEN Append(state.list, [x |-> state.pending,
                                                          y |-> ParseFloat(body[k].value)])
                                 ELSE state.list])
    ELSE ScanFrom(body, k + 1, state)

ScanOf(body) == ScanFrom(body, 1, [pending |-> Null, list |-> <<>>]).list

\* The code-20 records that close a vertex: Y is a finite number, the last
\* record of code 10 or 20 before it has code 10, and its X is a finite
\* number.
Closes(body, j) ==
    /\ body[j].code = 20
    /\ IsFinite(ParseFloat(body[j].value))
    /\ \E m \in 1..(j - 1) :
           /\ body[m].code = 10
           /\ IsFinite(ParseFloat(body[m].value))
           /\ \A q \in (m + 1)..(j - 1) : body[q].code \notin {10, 20}

\* C27: the vertices of parseLwPolyline are those of the scan of the body;
\* there are as many as code-20 records that close one (so a 10 with no 20
\* before the next 10 gives none); the entity is dropped iff they are fewer
\* than 2, and else has them as its points.
C27_CompactVerticesByScan ==
    xf.stage = "compact" =>
        /\ xf.vertices = ScanOf(xf.body)
        /\ Len(xf.vertices) = Cardinality({j \in 1..Len(xf.body) : Closes(xf.body, j)})
        /\ xf.entity = Null <=> Len(xf.vertices) < 2
        /\ xf.entity # Null => xf.entity.type = "POLYLINE" /\ xf.entity.points = xf.vertices

\* A body where a 10 has no 20 before the next 10, or a 20 stands with no
\* X pending, and two vertices result: (1, 2) and (3, 2).
C27_Witness ==
    /\ xf.stage = "compact"
    /\ Len(xf.body) = 5
    /\ [k \in 1..5 |-> xf.body[k].code] \in {<<10, 20, 10, 10, 20>>, <<10, 20, 20, 10, 20>>}
    /\ xf.entity # Null
    /\ xf.entity.points = <<[x |-> Num(1), y |-> Num(2)], [x |-> Num(3), y |-> Num(2)]>>

----------------------------------------------------------------------------
(* The scanner on lines and line breaks                                    *)

MaxLines == 4

\* The lines a text is made of: a code, a code with white space around it
\* and a letter after it, the empty line, a blank line, and a word.
ScanLines == { <<"0">>, <<" ", "7", "x", " ">>, <<>>, <<" ">>, <<"x">> }

\* The line breaks: LF, a lone CR, and CR LF.
LineBreaks == { <<LF>>, <<CR>>, <<CR, LF>> }

\* The text of the lines with the breaks between them.
RECURSIVE JoinWith(_, _)
JoinWith(ls, breaks) ==
    IF Len(ls) = 1 THEN ls[1]
    ELSE ls[1] \o breaks[1] \o JoinWith(Tail(ls), Tail(breaks))

\* The caller writes the first line of a text.
FirstLine ==
    /\ phase = "view"
    /\ xf.stage = "none"
    /\ \E line \in ScanLines : xf' = [stage |-> "lines", lines |-> <<line>>, breaks |-> <<>>]
    /\ ParserUnchanged

\* The caller writes a line break and a line. An LF after an empty line
\* that follows a lone CR is not written: the two would be a CR LF.
NextLine ==
    /\ phase = "view"
    /\ xf.stage = "lines"
    /\ Len(xf.lines) < MaxLines
    /\ \E break \in LineBreaks : \E line \in ScanLines :
           /\ ~(/\ break = <<LF>>
                /\ xf.lines[Len(xf.lines)] = <<>>
                /\ xf.breaks # <<>>
                /\ xf.breaks[Len(xf.breaks)] = <<CR>>)
           /\ xf' = [xf EXCEPT !.lines = Append(@, line), !.breaks = Append(@, break)]
    /\ ParserUnchanged

\* parseGroups is called for the text.
ParseGroups ==
    /\ phase = "view"
    /\ xf.stage = "lines"
    /\ xf' = [stage |-> "scanned", lines |-> xf.lines, breaks |-> xf.breaks,
              groups |-> parseGroups(JoinWith(xf.lines, xf.breaks))]
    /\ ParserUnchanged

NextScan == FirstLine \/ NextLine \/ ParseGroups

SpecScan == InitXform /\ [][NextScan]_vars

\* The trimmed line starts with an integer: a digit, or a sign and a digit.
StartsWithInteger(text) ==
    /\ text # <<>>
    /\ \/ Head(text) \in Digits
       \/ Head(text) \in {"+", "-"} /\ Len(text) > 1 /\ text[2] \in Digits

\* The 0-based numbers j of the pairs (lines 2j and 2j + 1) that give a
\* record.
RecordPairs(ls) ==
    {j \in 0..((Len(ls) \div 2) - 1) : StartsWithInteger(Trim(ls[2 * j + 1]))}

\* The pairs of the set in increasing order.
RECURSIVE InOrder(_)
InOrder(pairs) ==
    IF pairs = {} THEN <<>>
    ELSE LET least == CHOOSE j \in pairs : \A other \in pairs : j <= other
         IN  <<least>> \o InOrder(pairs \ {least})

\* C28: the tag records are those of the fixed pairs of lines whose first
\* line, trimmed, starts with an integer, in the order of the pairs, each
\* with the integer as code and the trimmed second line as value, whichever
\* line breaks stand between the lines; a last line without a partner gives
\* no record.
C28_RecordsFromFixedPairs ==
    xf.stage = "scanned" =>
        \A order \in {InOrder(RecordPairs(xf.lines))} :
            /\ Len(xf.groups) = Len(order)
            /\ \A k \in 1..Len(order) :
                   /\ xf.groups[k].code = ParseInt(xf.lines[2 * order[k] + 1]).n
                   /\ xf.groups[k].value = Trim(xf.lines[2 * order[k] + 2])
            /\ xf.groups = parseGroups(JoinLines(xf.lines))

\* Four lines with a lone CR, a CR LF and a lone CR between them: the first
\* pair, whose first line is a word, gives no record though its second line
\* is a code, and the second pair gives the record of code 7.
C28_Witness ==
    /\ xf.stage = "scanned"
    /\ Len(xf.lines) = 4
    /\ xf.lines[1] = <<"x">>
    /\ xf.lines[2] = <<"0">>
    /\ xf.lines[3] = <<" ", "7", "x", " ">>
    /\ xf.breaks = << <<CR>>, <<CR, LF>>, <<CR>> >>
    /\ xf.groups = <<[code |-> 7, value |-> xf.lines[4]]>>

----------------------------------------------------------------------------
(* The loops of drawGrid in the doubles of JavaScript                      *)

\* Sums, differences and comparisons of doubles; none of the numbers below
\* leaves the normal range of the doubles.
DoubleNeg(x) == [s |-> -x.s, m |-> x.m, e |-> x.e]

DoubleOfBig(s, n) == IF n = <<>> THEN DoubleZero ELSE NearestDouble(s, n, <<1>>, 0)

\* sx * a * 2^e + sy * b * 2^e for a, b > 0, rounded.
SumAligned(sx, a, sy, b, e) ==
    IF sx = sy THEN NearestDouble(sx, BigAdd(a, b), <<1>>, e)
    ELSE IF BigCompare(a, b) = 0 THEN DoubleZero
    ELSE IF BigCompare(a, b) > 0 THEN NearestDouble(sx, BigSub(a, b), <<1>>, e)
    ELSE NearestDouble(sy, BigSub(b, a), <<1>>, e)

SumAt(x, y, e) == SumAligned(x.s, BigShift(x.m, x.e - e), y.s, BigShift(y.m, y.e - e), e)

\* x + y and x - y of JavaScript.
DoublePlus(x, y) ==
    IF x.s = 0 THEN y
    ELSE IF y.s = 0 THEN x
    ELSE SumAt(x, y, IF x.e < y.e THEN x.e ELSE y.e)
DoubleMinus(x, y) == DoublePlus(x, DoubleNeg(y))

\* -1, 0 or 1 as |x| is below, equal to or above |y|, for x, y # 0.
SizeCompare(x, y) ==
    IF x.e # y.e THEN (IF x.e < y.e THEN -1 ELSE 1) ELSE BigCompare(x.m, y.m)

\* x < y and x <= y of JavaScript.
DoubleLt(x, y) ==
    IF x.s # y.s THEN x.s < y.s
    ELSE IF x.s = 0 THEN FALSE
    ELSE IF x.s = 1 THEN SizeCompare(x, y) < 0
    ELSE SizeCompare(x, y) > 0
DoubleLe(x, y) == x = y \/ DoubleLt(x, y)

DoubleMax(x, y) == IF DoubleLt(x, y) THEN y ELSE x
DoubleMin(x, y) == IF DoubleLt(y, x) THEN y ELSE x

\* Math.floor and Math.ceil of a double, from the whole part q of its size
\* and whether a fraction r is left.
FloorOfParts(s, qr) ==
    IF s > 0 THEN DoubleOfBig(1, qr.q)
    ELSE DoubleOfBig(-1, IF qr.r = <<>> THEN qr.q ELSE BigAdd(qr.q, <<1>>))
MathFloor(x) ==
    IF x.s = 0 \/ x.e >= 0 THEN x
    ELSE FloorOfParts(x.s, BigDivMod(x.m, BigShift(<<1>>, -x.e)))
MathCeil(x) == DoubleNeg(MathFloor(DoubleNeg(x)))

\* The double of a whole number below 2^31 and of the product of two.
DoubleNum(k) == DoubleOf(Num(k))
DoubleProduct(j, k) == DoubleTimes(DoubleNum(j), DoubleNum(k))

DoubleEpsilon == DoubleOf(Epsilon)
DoubleTwo == DoubleNum(2)
DoubleOne == DoubleNum(1)

\* createTransform on doubles, from its constants on: the viewport has a zoom
\* that is a number and pans that are finite.
TransformOfWorld(scene, baseScale, worldWidth, worldHeight) ==
    [baseScale |-> baseScale,
     offsetX |-> DoubleOver(DoubleMinus(scene.width, DoubleTimes(worldWidth, baseScale)), DoubleTwo),
     offsetY |-> DoubleOver(DoubleMinus(scene.height, DoubleTimes(worldHeight, baseScale)), DoubleTwo),
     minX |-> scene.bounds.minX,
     minY |-> scene.bounds.minY,
     canvasWidth |-> scene.width,
     canvasHeight |-> scene.height,
     centerX |-> DoubleOver(scene.width, DoubleTwo),
     centerY |-> DoubleOver(scene.height, DoubleTwo),
     zoom |-> DoubleMin(DoubleNum(200), DoubleMax(DoubleOf(MinZoom), scene.zoom)),
     panX |-> scene.panX,
     panY |-> scene.panY]

\* (width - safePadding * 2) / worldWidth
ScaleAlong(size, pad, world) ==
    DoubleOver(DoubleMinus(size, DoubleTimes(pad, DoubleTwo)), world)

TransformOfPadding(scene, pad, worldWidth, worldHeight) ==
    TransformOfWorld(scene,
                     DoubleMax(DoubleEpsilon,
                               DoubleMin(ScaleAlong(scene.width, pad, worldWidth),
                                         ScaleAlong(scene.height, pad, worldHeight))),
                     worldWidth, worldHeight)

TransformInDoubles(scene) ==
    TransformOfPadding(scene,
                       DoubleMin(DoubleMax(scene.padding, DoubleZero),
                                 DoubleOver(DoubleMin(scene.width, scene.height), DoubleTwo)),
                       DoubleMax(DoubleMinus(scene.bounds.maxX, scene.bounds.minX), DoubleEpsilon),
                       DoubleMax(DoubleMinus(scene.bounds.maxY, scene.bounds.minY), DoubleEpsilon))

\* screenToWorld on doubles.
BaseAlong(screen, pan, center, zoom) ==
    DoublePlus(DoubleOver(DoubleMinus(DoubleMinus(screen, pan), center), zoom), center)
WorldX(x, transform) ==
    DoublePlus(DoubleOver(DoubleMinus(BaseAlong(x, transform.panX, transform.centerX,
                                                transform.zoom),
                                      transform.offsetX),
                          transform.baseScale),
               transform.minX)
WorldY(y, transform) ==
    DoublePlus(DoubleOver(DoubleMinus(DoubleMinus(transform.canvasHeight,
                                                  BaseAlong(y, transform.panY,
                                                            transform.centerY, transform.zoom)),
                                      transform.offsetY),
                          transform.baseScale),
               transform.minY)

\* computeVisibleWorldBounds on doubles: the least and the greatest of the
\* coordinates of the four corners of the canvas.
VisibleBetween(left, right, top, bottom) ==
    [minX |-> DoubleMin(left, right), maxX |-> DoubleMax(left, right),
     minY |-> DoubleMin(top, bottom), maxY |-> DoubleMax(top, bottom)]
VisibleInDoubles(transform) ==
    VisibleBetween(WorldX(DoubleZero, transform), WorldX(transform.canvasWidth, transform),
                   WorldY(DoubleZero, transform), WorldY(transform.canvasHeight, transform))

\* normalizeGridStep on doubles, with the count of its doublings.
RECURSIVE DoublingsUntil(_, _, _, _)
DoublingsUntil(step, span, maxLines, doublings) ==
    IF DoubleLt(maxLines, DoubleOver(span, step))
    THEN DoublingsUntil(DoubleTimes(step, DoubleTwo), span, maxLines, doublings + 1)
    ELSE [step |-> step, doublings |-> doublings]

StepInDoubles(baseStep, span, maxLines) ==
    DoublingsUntil(DoubleMax(baseStep, DoubleEpsilon), span, maxLines, 0)

\* The loop along one axis at its start: Math.floor(min / step),
\* Math.ceil(max / step) and the index at the first of them.
LoopFrom(startIndex, endIndex, normalized) ==
    [step |-> normalized.step, doublings |-> normalized.doublings,
     startIndex |-> startIndex, endIndex |-> endIndex, index |-> startIndex, drawn |-> 0]
LoopOfStep(min, max, normalized) ==
    LoopFrom(MathFloor(DoubleOver(min, normalized.step)),
             MathCeil(DoubleOver(max, normalized.step)), normalized)
LoopAlong(min, max, baseGridSize) ==
    LoopOfStep(min, max,
               StepInDoubles(baseGridSize, DoubleMax(DoubleMinus(max, min), DoubleEpsilon),
                             DoubleNum(GridMaxLines)))

\* ix <= endXIndex && ix - startXIndex < 5000
LoopGoesOn(loop) ==
    /\ DoubleLe(loop.index, loop.endIndex)
    /\ DoubleLt(DoubleMinus(loop.index, loop.startIndex), DoubleNum(GridLoopCap))

\* One turn of the loop: a line is drawn, then ix += 1.
LoopTurn(loop) ==
    [loop EXCEPT !.index = DoublePlus(loop.index, DoubleOne), !.drawn = loop.drawn + 1]

\* A coordinate of 10^17, and a pan of 10^19 pixels.
Far == DoubleProduct(100000000, 1000000000)
FarPan == DoubleTimes(Far, DoubleNum(100))

LoopBounds(minX, maxX) ==
    [minX |-> minX, minY |-> DoubleZero, maxX |-> maxX, maxY |-> DoubleNum(100)]
LoopScene(bounds, zoom, panX, baseGridSize) ==
    [bounds |-> bounds, width |-> DoubleNum(800), height |-> DoubleNum(600),
     padding |-> DoubleNum(20), zoom |-> zoom, panX |-> panX, panY |-> DoubleZero,
     baseGridSize |-> baseGridSize]

\* A drawing 100 wide at the origin at the zoom of 1, at the least and at the
\* greatest zoom, with base steps of 1, 10 and less than 1e-6; the same
\* drawing with a pan of 10^19 pixels; and a drawing 1600 wide at 10^17.
LoopScenes ==
    { LoopScene(LoopBounds(DoubleZero, DoubleNum(100)), DoubleNum(1), DoubleZero, DoubleNum(1)),
      LoopScene(LoopBounds(DoubleZero, DoubleNum(100)), DoubleOf(MinZoom), DoubleZero, DoubleNum(1)),
      LoopScene(LoopBounds(DoubleZero, DoubleNum(100)), DoubleOf(MinZoom), DoubleNum(-40),
                DoubleOf(Rat(1, 10000000))),
      LoopScene(LoopBounds(DoubleZero, DoubleNum(100)), DoubleNum(200), DoubleNum(-40), DoubleNum(10)),
      LoopScene(LoopBounds(DoubleZero, DoubleNum(100)), DoubleNum(1), FarPan, DoubleNum(1)),
      LoopScene(LoopBounds(DoubleZero, DoubleNum(100)), DoubleNum(200), FarPan, DoubleNum(1)),
      LoopScene(LoopBounds(Far, DoublePlus(Far, DoubleNum(1600))), DoubleNum(1), DoubleZero,
                DoubleNum(1)) }

\* drawGrid is called and comes to its first loop.
StartGrid ==
    /\ phase = "view"
    /\ xf.stage = "none"
    /\ \E scene \in LoopScenes :
       \E visible \in {VisibleInDoubles(TransformInDoubles(scene))} :
           xf' = [stage |-> "gridX", scene |-> scene, visible |-> visible,
                  x |-> LoopAlong(visible.minX, visible.maxX, scene.baseGridSize),
                  y |-> LoopAlong(visible.minY, visible.maxY, scene.baseGridSize)]
    /\ ParserUnchanged

\* A turn of the first loop.  The count of the lines is followed up to one
\* past the cap of the loop.
DrawLineX ==
    /\ xf.stage = "gridX"
    /\ LoopGoesOn(xf.x)
    /\ xf.x.drawn <= GridLoopCap
    /\ xf' = [xf EXCEPT !.x = LoopTurn(xf.x)]
    /\ ParserUnchanged

\* The first loop ends and the second starts.
EndLoopX ==
    /\ xf.stage = "gridX"
    /\ ~LoopGoesOn(xf.x)
    /\ xf' = [xf EXCEPT !.stage = "gridY"]
    /\ ParserUnchanged

\* A turn of the second loop.
DrawLineY ==
    /\ xf.stage = "gridY"
    /\ LoopGoesOn(xf.y)
    /\ xf.y.drawn <= GridLoopCap
    /\ xf' = [xf EXCEPT !.y = LoopTurn(xf.y)]
    /\ ParserUnchanged

\* The second loop ends; drawGrid draws the axes and returns.
EndLoopY ==
    /\ xf.stage = "gridY"
    /\ ~LoopGoesOn(xf.y)
    /\ xf' = [xf EXCEPT !.stage = "gridDrawn"]
    /\ ParserUnchanged

NextLoops == StartGrid \/ DrawLineX \/ EndLoopX \/ DrawLineY \/ EndLoopY

SpecLoops == InitXform /\ [][NextLoops]_vars

InGrid == xf.stage \in {"gridX", "gridY", "gridDrawn"}

\* The doubling of the step has ended: span / step is 500 at the most.
StepSettled(loop, min, max) ==
    ~DoubleLt(DoubleNum(GridMaxLines),
              DoubleOver(DoubleMax(DoubleMinus(max, min), DoubleEpsilon), loop.step))

\* C29: drawing the grid terminates at every zoom within [0.02, 200] and
\* every pan: the doubling of the step ends along each axis, and the loop
\* along each axis draws 5000 lines at the most.
C29_GridDrawingTerminates ==
    InGrid =>
        /\ StepSettled(xf.x, xf.visible.minX, xf.visible.maxX)
        /\ StepSettled(xf.y, xf.visible.minY, xf.visible.maxY)
        /\ xf.x.drawn <= GridLoopCap /\ xf.y.drawn <= GridLoopCap

\* What holds: a loop whose index is changed by ix += 1 draws as many lines
\* as there are indices from the first to the last, which the step chosen
\* keeps to 502 at the most.
Counts(loop) == DoublePlus(loop.startIndex, DoubleOne) # loop.startIndex
LinesWithinCapWhileIndexCounts ==
    InGrid =>
        /\ StepSettled(xf.x, xf.visible.minX, xf.visible.maxX)
        /\ StepSettled(xf.y, xf.visible.minY, xf.visible.maxY)
        /\ Counts(xf.x) => xf.x.drawn <= GridMaxLines + 2
        /\ Counts(xf.y) => xf.y.drawn <= GridMaxLines + 2

\* The drawing at 10^17 in the first loop: the index is Math.floor of a
\* number beyond 2^53, ix += 1 leaves it as it is, the test of the loop is
\* true of it, and more than 5000 lines were drawn at it.
GridLoopStalls ==
    /\ xf.stage = "gridX"
    /\ xf.scene.bounds.minX = Far
    /\ xf.scene.panX = DoubleZero
    /\ xf.x.index = xf.x.startIndex
    /\ LoopTurn(xf.x).index = xf.x.index
    /\ LoopGoesOn(xf.x)
    /\ xf.x.drawn > GridLoopCap

----------------------------------------------------------------------------
(* Clicks: the view with the press the events tell of                      *)

\* Pointer 1 goes down on the first vertex with the main, the middle or the
\* secondary button and pointer 2 with the main button; pointer 1 moves to
\* less than 3 pixels and to 3 pixels from the vertex and pointer 2 to 3
\* pixels from it; both are let go, cancelled or lose their capture there.
ClickPointers == {Num(1), Num(2)}
ClickDownEvents ==
    {PointerEvent(Num(1), button, OnFirstVertex) : button \in {Num(0), Num(1), Num(2)}}
    \cup {PointerEvent(Num(2), Num(0), OnFirstVertex)}
ClickMoveEvents ==
    {PointerEvent(Num(1), Num(0), place) : place \in {NearFirstVertex, ThreeFromFirstVertex}}
    \cup {PointerEvent(Num(2), Num(0), ThreeFromFirstVertex)}
ClickEndEvents == {PointerEvent(pointerId, Num(0), OnFirstVertex) : pointerId \in ClickPointers}

\* Whether onPointerUp calls handleMeasurementClick.
RunsClickHandler(view, event) ==
    /\ view.activePointerId = event.pointerId
    /\ ~view.pointerDragged
    /\ view.pointerDownButton = Num(0)

\* The press as the events tell it: the pointer and the button of the last
\* pointerdown with the main or the middle button (onPointerDown returns on
\* any other), whether a move of that pointer since was 3 pixels or more from
\* where it went down, where its last move was, the event that ended the
\* press, the runs of handleMeasurementClick since the press began with what
\* the press was at the last of them, and the last pointerup, pointercancel,
\* lostpointercapture or close since.
NoPress ==
    [pointerId |-> Null, button |-> Null, downX |-> Null, downY |-> Null,
     far |-> FALSE, near |-> FALSE, ended |-> "never", runs |-> 0, run |-> Null,
     last |-> "none"]

PressedBy(pressed, event) ==
    IF event.button \in {Num(0), Num(1)}
    THEN [pointerId |-> event.pointerId, button |-> event.button,
          downX |-> event.clientX, downY |-> event.clientY,
          far |-> FALSE, near |-> FALSE, ended |-> "none", runs |-> 0, run |-> Null,
          last |-> "none"]
    ELSE pressed

MovedBy(pressed, event) ==
    IF pressed.pointerId # event.pointerId \/ pressed.ended # "none"
    THEN pressed
    ELSE [pressed EXCEPT !.far = @ \/ AtLeast3Away(pressed, event),
                         !.near = ~AtLeast3Away(pressed, event)]

RunOf(pressed, event) ==
    [pointerId |-> event.pointerId, far |-> pressed.far, after |-> pressed.ended]

EndedBy(pressed, event, kind, ran) ==
    [pressed EXCEPT !.runs = IF ran THEN @ + 1 ELSE @,
                    !.run = IF ran THEN RunOf(pressed, event) ELSE @,
                    !.ended = IF pressed.pointerId = event.pointerId /\ @ = "none"
                              THEN kind ELSE @,
                    !.last = kind]

CreateClickView ==
    /\ phase = "view"
    /\ xf.stage = "none"
    /\ xf' = NewView @@ [pressed |-> NoPress]
    /\ ParserUnchanged

ClickSetViewData ==
    /\ IsView
    /\ xf.parsedDocument = Null
    /\ xf' = setViewData(xf, DrawingFile)
    /\ ParserUnchanged

ClickDown ==
    /\ HasCanvas
    /\ \E event \in ClickDownEvents :
           xf' = [onPointerDown(xf, event) EXCEPT !.pressed = PressedBy(@, event)]
    /\ ParserUnchanged

ClickMove ==
    /\ HasCanvas
    /\ \E event \in ClickMoveEvents : \E nearest \in {NearestAt(xf, event)} :
           /\ xf' = [Gesture(xf, onPointerMove(xf, event, nearest))
                         EXCEPT !.pressed = MovedBy(@, event)]
           /\ xf'.gestures <= MaxMoves
    /\ ParserUnchanged

\* The view after onPointerUp, with the press after the event of that kind.
Released(view, event, nearest, kind) ==
    [onPointerUp(view, event, nearest)
         EXCEPT !.pressed = EndedBy(@, event, kind, RunsClickHandler(view, event))]

\* onPointerUp is the listener of pointerup, of pointercancel and of
\* lostpointercapture.
ClickUp ==
    /\ HasCanvas
    /\ \E event \in ClickEndEvents : \E nearest \in {NearestAt(xf, event)} :
           xf' = Released(xf, event, nearest, "pointerup")
    /\ ParserUnchanged

ClickCancel ==
    /\ HasCanvas
    /\ \E event \in ClickEndEvents : \E nearest \in {NearestAt(xf, event)} :
           xf' = Released(xf, event, nearest, "pointercancel")
    /\ ParserUnchanged

ClickLostCapture ==
    /\ HasCanvas
    /\ \E event \in ClickEndEvents : \E nearest \in {NearestAt(xf, event)} :
           xf' = Released(xf, event, nearest, "lostpointercapture")
    /\ ParserUnchanged

\* onClose calls stopPanning: the press is over.
ClickClose ==
    /\ HasCanvas
    /\ xf' = [onClose(xf) EXCEPT !.pressed.ended = IF @ = "none" THEN "close" ELSE @,
                                 !.pressed.last = "close"]
    /\ ParserUnchanged

NextClick ==
    \/ CreateClickView \/ OnOpen \/ ClickClose \/ ClickSetViewData \/ ToggleMeasureMode
    \/ ClickDown \/ ClickMove \/ ClickUp \/ ClickCancel \/ ClickLostCapture

SpecClick == InitXform /\ [][NextClick]_vars

\* C30: handleMeasurementClick runs at most once for a pointerdown, and only
\* at the first pointerup, pointercancel or lostpointercapture of the pointer
\* that went down (one that follows the pointerup of the same pointer does
\* nothing), only when it went down with the main button, and only when no
\* move of that pointer since was 3 pixels or more from where it went down,
\* wherever the pointer is when it is let go.
C30_ClickAtMostOncePerPress ==
    IsView =>
        /\ xf.pressed.runs <= 1
        /\ xf.pressed.runs > 0 =>
               /\ xf.pressed.pointerId # Null
               /\ xf.pressed.run.pointerId = xf.pressed.pointerId
               /\ xf.pressed.run.after = "none"
               /\ xf.pressed.button = Num(0)
               /\ ~xf.pressed.run.far
        /\ xf.pressed.ended # "none" /\ xf.canvasEl # Null =>
               \A event \in ClickEndEvents : \A nearest \in {NearestAt(xf, event)} :
                   event.pointerId = xf.pressed.pointerId =>
                       onPointerUp(xf, event, nearest) = xf

\* In measure mode on a drawing a pointer went down on a vertex with the main
\* button, moved 3 pixels away and back to less than 3 pixels, and was let
\* go; then its capture was lost.  Neither event ran the handler: no vertex
\* is selected.
C30_Witness ==
    /\ IsView
    /\ xf.measureModeEnabled
    /\ xf.parsedDocument # Null
    /\ xf.pressed.button = Num(0)
    /\ xf.pressed.far
    /\ xf.pressed.near
    /\ xf.pressed.ended = "pointerup"
    /\ xf.pressed.last = "lostpointercapture"
    /\ xf.pressed.runs = 0
    /\ xf.measureStart = Null

\* A click that selected a vertex, with a lostpointercapture after its
\* pointerup: the handler ran once.
ClickSelectedOnce ==
    /\ IsView
    /\ xf.pressed.ended = "pointerup"
    /\ xf.pressed.last = "lostpointercapture"
    /\ xf.pressed.runs = 1
    /\ xf.measureStart # Null
    /\ xf.measureEnd = Null

----------------------------------------------------------------------------
(* The events that end a press                                             *)

\* The step is the first end event of the press, and is of one of the kinds.
FirstEndOf(kinds) ==
    /\ IsView /\ xf.pressed.ended = "none"
    /\ xf'.stage = "view" /\ xf'.pressed.ended \in kinds

\* C31: only a pointerup completes a click: a pointercancel, or a
\* lostpointercapture that is the first end event of a press, stops the pan
\* state and leaves the start and the end of the measurement as they were.
C31_OnlyPointerUpClicks ==
    [][FirstEndOf({"pointercancel", "lostpointercapture"}) =>
           /\ ~xf'.isPanning /\ xf'.activePointerId = Null
           /\ xf'.measureStart = xf.measureStart
           /\ xf'.measureEnd = xf.measureEnd]_vars

\* What holds: every first end event of a press stops the pan state, and it
\* changes the measurement only when handleMeasurementClick ran.
EndStopsPanning ==
    [][FirstEndOf({"pointerup", "pointercancel", "lostpointercapture"}) =>
           /\ ~xf'.isPanning /\ xf'.activePointerId = Null
           /\ xf'.pressed.runs = 0 =>
                  xf'.measureStart = xf.measureStart /\ xf'.measureEnd = xf.measureEnd]_vars

\* In measure mode on a drawing a pointer went down on a vertex with the main
\* button and the press was cancelled: handleMeasurementClick ran and the
\* vertex is the start of a measurement.
PointerCancelSelects ==
    /\ IsView
    /\ xf.measureModeEnabled
    /\ xf.parsedDocument # Null
    /\ xf.pressed.button = Num(0)
    /\ xf.pressed.ended = "pointercancel"
    /\ xf.pressed.last = "pointercancel"
    /\ xf.pressed.runs = 1
    /\ xf.measureStart # Null
    /\ xf.measureEnd = Null
    /\ xf.hoverVertex = xf.measureStart
    /\ ~xf.isPanning

----------------------------------------------------------------------------
(* The measurement and the data of the view                                *)

\* The place of the vertex (10, 0) as the new viewport shows it.
OnThirdVertex == [clientX |-> Num(94), clientY |-> Num(74)]
ThirdVertex == [x |-> Num(10), y |-> Num(0)]

\* Pointer 1 with the main button on the first and the third vertex and in
\* the middle of the canvas.
DataPointerEvents ==
    {PointerEvent(Num(1), Num(0), place) : place \in {OnFirstVertex, OnThirdVertex, MidCanvas}}

\* The view while drawings are loaded and measured.
NextData ==
    \/ CreateView \/ OnOpen \/ SetViewData(KnownFiles) \/ Clear \/ ToggleMeasureMode
    \/ OnPointerDown(DataPointerEvents) \/ OnPointerMove(DataPointerEvents, MaxPans)
    \/ OnPointerUp(DataPointerEvents) \/ OnPointerLeave

SpecData == InitXform /\ [][NextData]_vars

\* The document of a text: none for a blank one.
DocumentOf(text) == IF Trim(text) = <<>> THEN Null ELSE parseDxf(text)

\* The vertices findNearestVertex chooses from.
CandidatesOf(document) ==
    IF document = Null THEN {}
    ELSE {collectVertices(document.entities)[k] :
              k \in 1..Len(collectVertices(document.entities))}

SetPoints(view) == {view.measureStart, view.measureEnd, view.hoverVertex} \ {Null}

KeepsViewportAndMeasurement(view, after) ==
    /\ after.viewport = view.viewport
    /\ after.measureStart = view.measureStart
    /\ after.measureEnd = view.measureEnd
    /\ after.hoverVertex = view.hoverVertex

ResetsViewportAndMeasurement(after) ==
    /\ after.viewport = createDefaultViewport
    /\ NoMeasurement(after)

\* C32: in every state of the view the document is the one parsed from the
\* raw data and every set point of the measurement (start, end, hover) is a
\* candidate vertex of it; loading a text other than the raw data resets the
\* viewport and the measurement and replaces the document by the one of the
\* text, clear resets both, and loading the text that is the raw data leaves
\* the viewport and the measurement as they are.
C32_MeasurementOfCurrentDocument ==
    IsView =>
        /\ xf.parsedDocument = DocumentOf(xf.rawData)
        /\ SetPoints(xf) \subseteq CandidatesOf(xf.parsedDocument)
        /\ \A data \in KnownFiles : \A after \in {setViewData(xf, data)} :
               /\ after.rawData = data
               /\ after.parsedDocument = DocumentOf(data)
               /\ IF data # xf.rawData THEN ResetsViewportAndMeasurement(after)
                  ELSE KeepsViewportAndMeasurement(xf, after)
        /\ \A after \in {clearView(xf)} :
               /\ after.rawData = <<>> /\ after.parsedDocument = Null
               /\ ResetsViewportAndMeasurement(after)

\* The drawing of two lines is measured from the vertex (10, 0), which the
\* drawing of one line does not have, with an end and a hover vertex set and
\* the viewport moved; loading the other drawing leaves no measurement and
\* the viewport new, and loading the same text leaves both.
C32_Witness ==
    /\ IsView
    /\ xf.rawData = DrawingFile
    /\ xf.measureStart = ThirdVertex
    /\ xf.measureEnd # Null
    /\ xf.hoverVertex # Null
    /\ xf.viewport # createDefaultViewport
    /\ ThirdVertex \notin CandidatesOf(DocumentOf(OneLineFile))
    /\ ResetsViewportAndMeasurement(setViewData(xf, OneLineFile))
    /\ setViewData(xf, OneLineFile).parsedDocument = DocumentOf(OneLineFile)
    /\ KeepsViewportAndMeasurement(xf, setViewData(xf, DrawingFile))

=============================================================================
